---------------------------- MODULE Spec2Model ----------------------------
(***************************************************************************)
(* A model of gh-project-report's state comparison: DateSpan arithmetic   *)
(* (pkg/types/datespan.go), Item.CompareTo (pkg/types/item.go) and        *)
(* CompareProjectStates (pkg/types/types.go).                              *)
(*                                                                         *)
(* Conventions                                                             *)
(*  - a time.Time holding a calendar date (midnight UTC) is the number of *)
(*    days since 0001-01-01, so the zero time.Time is day 0;              *)
(*  - a string handed to time.Parse is the sequence of its characters;    *)
(*  - an interface{} value is a record [t |-> dynamic type, v |-> the     *)
(*    value printed with %v]; the nil interface is [t |-> "nil"];         *)
(*  - a map[string]interface{} is a function whose DOMAIN is its key set  *)
(*    (a nil map reads as the empty map);                                  *)
(*  - a nil *DateSpanChange and a nil slice are the values NoDateChange   *)
(*    and << >>.                                                           *)
(***************************************************************************)
EXTENDS Integers, Sequences, FiniteSets, TLC

VARIABLES
    \* DateSpan machine: NewDateSpan / DurationDays / DateSpan.CompareTo
    built,          \* slot -> result of the NewDateSpan call that filled it
    durationDays,   \* slot -> result of DurationDays on the slot's span
    dateChange,     \* results of a.CompareTo(b) and b.CompareTo(a)
    \* Item machine: Item.CompareTo
    before, after,  \* the receiver and the argument
    itemDiff,       \* the ItemDiff returned
    itemPc,         \* "ready" | "returned" | "panicked"
    \* Project machine: CompareProjectStates
    oldState, newState,  \* the Items of the two ProjectStates
    diff,           \* the ProjectDiff returned by the latest call
    prevDiff,       \* the ProjectDiff returned by the call before it
    pc,             \* "ready" | "returned" | "panicked"
    clock,          \* the wall clock read by time.Now()
    \* Filter machine: ProjectState.FilterState
    fHeap,          \* address -> the ProjectState stored there
    fCall,          \* the FilterState call: its argument and what it returned
    \* Delay machine: calculateDelayLevel / calculateTimelineDelayLevel
    lvCall,         \* the call: its function, arguments and the level returned
    \* Duration machine: formatHumanDuration
    hCall,          \* the call: its argument and the string returned
    \* Storage machine: Store.SaveState / Store.LoadStateFile
    disk,           \* file name -> the JSON document written there
    sCall,          \* the state saved, what was loaded back, their comparison
    \* Formatter machine: TableFormatter.Format / PlainTableFormatter.Format
    docCall,        \* the states compared, the diff, the formatter, its output
    \* Diff pipeline: runDiff's filter and compare steps
    pHeap,          \* address -> ProjectState: the loaded and the filtered states
    pCall,          \* the filter, the two states compared, the two diffs
    \* Lookup of a stored state: SaveState calls, then FindClosestState
    fcCall,         \* the project and time asked for, the file found
    \* ParseHumanRange on a range string
    hrCall,         \* the input, the clock reading, the range returned
    \* FetchProjectState: the conversion of one fetched item
    fpCall,         \* the configured fields, the field values, the Item built
    \* formatTimelineDetails on the DateChange of an item comparison
    tdCall          \* the two spans, the DateSpanChange, the text returned

dateVars == <<built, durationDays, dateChange>>
itemVars == <<before, after, itemDiff, itemPc>>
projVars == <<oldState, newState, diff, prevDiff, pc>>
filterVars == <<fHeap, fCall>>
fmtVars == <<lvCall, hCall>>
storeVars == <<disk, sCall>>
docVars == <<docCall>>
pipeVars == <<pHeap, pCall>>
lateVars == <<fcCall, hrCall, fpCall, tdCall>>
moreVars == <<filterVars, fmtVars, storeVars, docVars, pipeVars, lateVars>>
vars == <<built, durationDays, dateChange, before, after, itemDiff, itemPc,
          oldState, newState, diff, prevDiff, pc, clock, moreVars>>

--------------------------------------------------------------------------
(* Bounds of the model *)

\* time.Now() returns a value in 0..MaxClock
MaxClock == 1
\* a ProjectState holds at most MaxItems items
MaxItems == 2
\* a filter string has at most MaxFilterLen characters
MaxFilterLen == 4
\* a ProjectState handed to FilterState holds at most MaxFilterItems items
MaxFilterItems == 2
\* day deltas and delay thresholds lie in -MaxDelay..MaxDelay
MaxDelay == 3
\* formatHumanDuration is given 0..MaxDays days
MaxDays == 800
\* a ProjectState handed to SaveState holds at most MaxStoredItems items
MaxStoredItems == 2
\* the project whose diff is formatted has at most MaxDocItems item IDs
MaxDocItems == 2
\* a snapshot of the diff pipeline lists at most MaxPipeItems items
MaxPipeItems == 2

--------------------------------------------------------------------------
(* time.Time, time.Duration and time.Parse as the code uses them *)

\* The largest time.Duration (1<<63 - 1 ns) in whole days; Time.Sub saturates
\* at +/- this duration, and int(d.Hours()/24) truncates it to 106751.
MaxDurationDays == 106751

Digits == {"0", "1", "2", "3", "4", "5", "6", "7", "8", "9"}

DigitVal(c) ==
    CASE c = "0" -> 0 [] c = "1" -> 1 [] c = "2" -> 2 [] c = "3" -> 3
      [] c = "4" -> 4 [] c = "5" -> 5 [] c = "6" -> 6 [] c = "7" -> 7
      [] c = "8" -> 8 [] c = "9" -> 9

IsLeap(y) == y % 4 = 0 /\ (y % 100 # 0 \/ y % 400 = 0)

DaysIn(m, y) ==
    IF m = 2 THEN (IF IsLeap(y) THEN 29 ELSE 28)
    ELSE IF m \in {4, 6, 9, 11} THEN 30 ELSE 31

RECURSIVE DaysBeforeMonth(_, _)
DaysBeforeMonth(m, y) ==
    IF m <= 1 THEN 0 ELSE DaysBeforeMonth(m - 1, y) + DaysIn(m - 1, y)

\* Days from 0001-01-01 to the first day of year y (proleptic Gregorian).
DaysBeforeYear(y) ==
    LET p == y - 1 IN p * 365 + (p \div 4) - (p \div 100) + (p \div 400)

\* time.Parse("2006-01-02", s): four digits, '-', two digits, '-', two digits,
\* nothing else, the month in 1..12 and the day within the month.
ParseDate(s) ==
    IF \/ Len(s) # 10
       \/ s[5] # "-" \/ s[8] # "-"
       \/ \E i \in {1, 2, 3, 4, 6, 7, 9, 10} : s[i] \notin Digits
    THEN [ok |-> FALSE, t |-> 0]
    ELSE LET y == DigitVal(s[1]) * 1000 + DigitVal(s[2]) * 100
                  + DigitVal(s[3]) * 10 + DigitVal(s[4])
             m == DigitVal(s[6]) * 10 + DigitVal(s[7])
             d == DigitVal(s[9]) * 10 + DigitVal(s[10])
         IN IF m < 1 \/ m > 12 \/ d < 1 \/ d > DaysIn(m, y)
            THEN [ok |-> FALSE, t |-> 0]
            ELSE [ok |-> TRUE,
                  t  |-> DaysBeforeYear(y) + DaysBeforeMonth(m, y) + d - 1]

\* int(t.Sub(u).Hours() / 24) for two calendar dates: Sub saturates at the
\* largest Duration, and the conversion to int truncates toward zero.
SubDays(t, u) ==
    IF t - u > MaxDurationDays THEN MaxDurationDays
    ELSE IF t - u < -MaxDurationDays THEN -MaxDurationDays
    ELSE t - u

--------------------------------------------------------------------------
(* DateSpan (pkg/types/datespan.go) *)

ZeroDateSpan == [Start |-> 0, End |-> 0]

\* The error values NewDateSpan returns, by their message prefix.
ErrNil == "nil"
ErrInvalidStart == "invalid start date"
ErrInvalidEnd == "invalid end date"
ErrEndBeforeStart == "end date is before start date"

\* NewDateSpan with the order check written `!endTime.After(startTime)`:
\* a span of one day is refused.
NewDateSpan_RejectsSameDay(start, end) ==
    LET startTime == ParseDate(start)
        endTime == ParseDate(end)
    IN IF ~startTime.ok THEN [ds |-> ZeroDateSpan, err |-> ErrInvalidStart]
       ELSE IF ~endTime.ok THEN [ds |-> ZeroDateSpan, err |-> ErrInvalidEnd]
       ELSE IF endTime.t <= startTime.t
            THEN [ds |-> ZeroDateSpan, err |-> ErrEndBeforeStart]
       ELSE [ds |-> [Start |-> startTime.t, End |-> endTime.t], err |-> ErrNil]

NewDateSpan(start, end) ==
    LET startTime == ParseDate(start)
        endTime == ParseDate(end)
    IN IF ~startTime.ok THEN [ds |-> ZeroDateSpan, err |-> ErrInvalidStart]
       ELSE IF ~endTime.ok THEN [ds |-> ZeroDateSpan, err |-> ErrInvalidEnd]
       ELSE IF endTime.t < startTime.t
            THEN [ds |-> ZeroDateSpan, err |-> ErrEndBeforeStart]
       ELSE [ds |-> [Start |-> startTime.t, End |-> endTime.t], err |-> ErrNil]

\* MustNewDateSpan panics on an error; the model only applies it to valid dates.
MustNewDateSpan(start, end) == NewDateSpan(start, end).ds

DurationDays(ds) == SubDays(ds.End, ds.Start) + 1

\* CompareTo with the start delta taken as self - other
DateSpanCompareTo_StartSelfMinusOther(ds, other) ==
    [StartDaysDelta |-> SubDays(ds.Start, other.Start),
     EndDaysDelta   |-> SubDays(other.End, ds.End),
     DurationDelta  |-> DurationDays(other) - DurationDays(ds)]

DateSpanCompareTo(ds, other) ==
    [StartDaysDelta |-> SubDays(other.Start, ds.Start),
     EndDaysDelta   |-> SubDays(other.End, ds.End),
     DurationDelta  |-> DurationDays(other) - DurationDays(ds)]

\* Equal that forgets the End
DateSpanEqual_StartOnly(ds, other) == ds.Start = other.Start

DateSpanEqual(ds, other) == ds.Start = other.Start /\ ds.End = other.End

--------------------------------------------------------------------------
(* The DateSpan machine: spans are built from strings by NewDateSpan, then   *)
(* measured and compared.                                                   *)

Str(y, m, d) == y \o <<"-">> \o m \o <<"-">> \o d

\* Strings that are calendar dates in the layout 2006-01-02.
ValidDateStrings ==
    { Str(<<"0","0","0","1">>, <<"0","1">>, <<"0","1">>),
      Str(<<"2","0","2","4">>, <<"0","1">>, <<"0","1">>),
      Str(<<"2","0","2","4">>, <<"0","1">>, <<"1","0">>),
      Str(<<"2","0","2","4">>, <<"0","2">>, <<"2","9">>) }

\* Strings that are not: month 13, day 32, 29 February of a common year,
\* and a date without the zero padding.
InvalidDateStrings ==
    { Str(<<"2","0","2","4">>, <<"1","3">>, <<"0","1">>),
      Str(<<"2","0","2","4">>, <<"0","1">>, <<"3","2">>),
      Str(<<"2","0","2","3">>, <<"0","2">>, <<"2","9">>),
      Str(<<"2","0","2","4">>, <<"1">>, <<"1">>) }

DateStrings == ValidDateStrings \cup InvalidDateStrings

Slots == {"a", "b"}

NotBuilt == [called |-> FALSE, start |-> <<>>, end |-> <<>>,
             ds |-> ZeroDateSpan, err |-> ErrNil]
NoDays == [set |-> FALSE, days |-> 0]
NoChange == [set |-> FALSE,
             ab |-> DateSpanCompareTo(ZeroDateSpan, ZeroDateSpan),
             ba |-> DateSpanCompareTo(ZeroDateSpan, ZeroDateSpan)]

DateInit ==
    /\ built = [s \in Slots |-> NotBuilt]
    /\ durationDays = [s \in Slots |-> NoDays]
    /\ dateChange = NoChange

\* slot := NewDateSpan(start, end)
NewDateSpanCall(slot, start, end) ==
    /\ ~built[slot].called
    /\ LET r == NewDateSpan(start, end)
       IN built' = [built EXCEPT ![slot] =
                      [called |-> TRUE, start |-> start, end |-> end,
                       ds |-> r.ds, err |-> r.err]]
    /\ UNCHANGED <<durationDays, dateChange>>

\* slot.DurationDays()
DurationDaysCall(slot) ==
    /\ built[slot].called
    /\ ~durationDays[slot].set
    /\ durationDays' = [durationDays EXCEPT ![slot] =
                          [set |-> TRUE, days |-> DurationDays(built[slot].ds)]]
    /\ UNCHANGED <<built, dateChange>>

\* a.CompareTo(b) and b.CompareTo(a)
DateSpanCompareToCall ==
    /\ \A s \in Slots : built[s].called
    /\ ~dateChange.set
    /\ dateChange' = [set |-> TRUE,
                      ab |-> DateSpanCompareTo(built["a"].ds, built["b"].ds),
                      ba |-> DateSpanCompareTo(built["b"].ds, built["a"].ds)]
    /\ UNCHANGED <<built, durationDays>>

--------------------------------------------------------------------------
(* interface{} values and Item (pkg/types/item.go) *)

\* Dynamic types whose values Go cannot compare with == and != : what
\* encoding/json decodes a JSON array and a JSON object to.
UncomparableTypes == {"[]interface {}", "map[string]interface {}"}

NilValue == [t |-> "nil", v |-> "<nil>"]

\* The outcome of `a != b` on two interface{} values: they differ when their
\* dynamic types or their values differ, and the comparison panics when both
\* hold the same uncomparable dynamic type.
InterfaceNeq(a, b) ==
    IF a.t # b.t THEN "true"
    ELSE IF a.t \in UncomparableTypes THEN "panic"
    ELSE IF a.v # b.v THEN "true" ELSE "false"

\* The attribute names of the model, in the byte order Go's < gives strings.
FieldNames ==
    <<"Priority", "Team", "Title", "created_at", "labels", "start", "status",
      "updated_at">>

FieldRank(f) == CHOOSE n \in 1..Len(FieldNames) : FieldNames[n] = f

\* The less function of the sort with its comparison turned around
FieldLess_Descending(x, y) == FieldRank(x.Field) > FieldRank(y.Field)

\* changes[i].Field < changes[j].Field
FieldLess(x, y) == FieldRank(x.Field) < FieldRank(y.Field)

\* The orders in which `range` may visit the keys of a map.
Perms(S) ==
    { s \in [1..Cardinality(S) -> S] : \A x \in S : \E i \in DOMAIN s : s[i] = x }

RECURSIVE InsertSorted(_, _)
InsertSorted(x, sorted) ==
    IF sorted = << >> THEN <<x>>
    ELSE IF FieldLess(x, Head(sorted)) THEN <<x>> \o sorted
    ELSE <<Head(sorted)>> \o InsertSorted(x, Tail(sorted))

\* sort.Slice(changes, by Field): no two changes share a Field here, so the
\* unstable sort has one result.
RECURSIVE SortByField(_)
SortByField(changes) ==
    IF changes = << >> THEN << >>
    ELSE InsertSorted(Head(changes), SortByField(Tail(changes)))

NoDateChange ==
    [nil |-> TRUE, StartDaysDelta |-> 0, EndDaysDelta |-> 0, DurationDelta |-> 0]

\* diff.DateChange after the DateSpan comparison of CompareTo
DateChangeOf(i, other) ==
    IF ~DateSpanEqual(i.DateSpan, other.DateSpan)
    THEN [nil |-> FALSE] @@ DateSpanCompareTo(i.DateSpan, other.DateSpan)
    ELSE NoDateChange

\* `oldVal, exists := i.Attributes[key]`: the nil interface when key is absent
Lookup(attrs, key) == IF key \in DOMAIN attrs THEN attrs[key] ELSE NilValue

\* The condition of the first loop with `oldVal == nil` in place of `!exists`
IsChangedOrAdded_NilCheck(i, other, key) ==
    \/ Lookup(i.Attributes, key) = NilValue
    \/ InterfaceNeq(i.Attributes[key], other.Attributes[key]) = "true"

\* The condition of the first loop: !exists || oldVal != newVal
IsChangedOrAdded(i, other, key) ==
    \/ key \notin DOMAIN i.Attributes
    \/ InterfaceNeq(i.Attributes[key], other.Attributes[key]) = "true"

\* The first loop panics on a key both items hold with an uncomparable type.
ComparePanics(i, other) ==
    \E key \in DOMAIN other.Attributes \cap DOMAIN i.Attributes :
        InterfaceNeq(i.Attributes[key], other.Attributes[key]) = "panic"

\* The first loop without `!exists`: only keys both items hold are reported
ChangedAndAdded_ChangedOnly(i, other, order) ==
    LET keys == SelectSeq(order, LAMBDA key :
                   /\ key \in DOMAIN i.Attributes
                   /\ InterfaceNeq(i.Attributes[key], other.Attributes[key]) = "true")
    IN [n \in 1..Len(keys) |->
          [Field    |-> keys[n],
           OldValue |-> Lookup(i.Attributes, keys[n]),
           NewValue |-> other.Attributes[keys[n]]]]

\* The changes appended by the first loop, visiting other.Attributes in `order`
ChangedAndAdded(i, other, order) ==
    LET keys == SelectSeq(order, LAMBDA key : IsChangedOrAdded(i, other, key))
    IN [n \in 1..Len(keys) |->
          [Field    |-> keys[n],
           OldValue |-> Lookup(i.Attributes, keys[n]),
           NewValue |-> other.Attributes[keys[n]]]]

\* The second loop with the value stored as NewValue instead of OldValue
Deleted_ValueAsNew(i, other, order) ==
    LET keys == SelectSeq(order, LAMBDA key : key \notin DOMAIN other.Attributes)
    IN [n \in 1..Len(keys) |->
          [Field    |-> keys[n],
           OldValue |-> NilValue,
           NewValue |-> i.Attributes[keys[n]]]]

\* The changes appended by the second loop, visiting i.Attributes in `order`
Deleted(i, other, order) ==
    LET keys == SelectSeq(order, LAMBDA key : key \notin DOMAIN other.Attributes)
    IN [n \in 1..Len(keys) |->
          [Field    |-> keys[n],
           OldValue |-> i.Attributes[keys[n]],
           NewValue |-> NilValue]]

\* diff.FieldChanges without the sort
FieldChangesOf_Unsorted(i, other, orderOther, orderSelf) ==
    ChangedAndAdded(i, other, orderOther) \o Deleted(i, other, orderSelf)

\* diff.FieldChanges: both loops, then the sort
FieldChangesOf(i, other, orderOther, orderSelf) ==
    SortByField(ChangedAndAdded(i, other, orderOther)
                \o Deleted(i, other, orderSelf))

\* i.CompareTo(other) at time `now`, the two maps visited in the given orders
ItemCompareTo(i, other, now, orderOther, orderSelf) ==
    [ItemID       |-> i.ID,
     Timestamp    |-> now,
     Before       |-> i,
     After        |-> other,
     DateChange   |-> DateChangeOf(i, other),
     FieldChanges |-> FieldChangesOf(i, other, orderOther, orderSelf)]

HasChanges(d) == ~d.DateChange.nil \/ Len(d.FieldChanges) > 0

\* Every ItemDiff i.CompareTo(other) can return at time `now`
ItemCompareToResults(i, other, now) ==
    { ItemCompareTo(i, other, now, orderOther, orderSelf) :
        orderOther \in Perms(DOMAIN other.Attributes),
        orderSelf \in Perms(DOMAIN i.Attributes) }

--------------------------------------------------------------------------
(* The Item machine: one call of before.CompareTo(after) *)

Val(t, v) == [t |-> t, v |-> v]

\* The values an attribute takes in the model: a number against a string
\* and against nil under "Priority", a decoded JSON array under "labels",
\* two different strings under "status".
AttrValues(key) ==
    CASE key = "Priority" -> {Val("float64", "1"), Val("string", "1"), NilValue}
      [] key = "labels"   -> {Val("[]interface {}", "[bug]")}
      [] key = "status"   -> {Val("string", "Todo"), Val("string", "Done")}

FieldNameSet == {"Priority", "labels", "status"}

\* Every attribute map over the model's names: any key may be missing.
AttributeBags ==
    UNION { { a \in [keys -> UNION {AttrValues(k) : k \in keys}] :
                \A k \in keys : a[k] \in AttrValues(k) } :
            keys \in SUBSET FieldNameSet }

d20240101 == Str(<<"2","0","2","4">>, <<"0","1">>, <<"0","1">>)
d20240110 == Str(<<"2","0","2","4">>, <<"0","1">>, <<"1","0">>)
d20240229 == Str(<<"2","0","2","4">>, <<"0","2">>, <<"2","9">>)

\* The zero value (an item without dates) and three spans of calendar dates:
\* two share their start, two share their end.
ItemSpans ==
    { ZeroDateSpan,
      MustNewDateSpan(d20240101, d20240110),
      MustNewDateSpan(d20240101, d20240229),
      MustNewDateSpan(d20240110, d20240229) }

Items(id) ==
    { [ID |-> id, DateSpan |-> ds, Attributes |-> a] :
        ds \in ItemSpans, a \in AttributeBags }

NoItemDiff ==
    [ItemID |-> "", Timestamp |-> 0,
     Before |-> [ID |-> "", DateSpan |-> ZeroDateSpan, Attributes |-> << >>],
     After  |-> [ID |-> "", DateSpan |-> ZeroDateSpan, Attributes |-> << >>],
     DateChange |-> NoDateChange, FieldChanges |-> << >>]

ItemInit ==
    /\ before \in Items("1")
    /\ after \in Items("1")
    /\ itemDiff = NoItemDiff
    /\ itemPc = "ready"

\* time passes between calls
Tick ==
    /\ clock < MaxClock
    /\ clock' = clock + 1

\* itemDiff := before.CompareTo(after)
ItemCompareToCall ==
    /\ itemPc = "ready"
    /\ IF ComparePanics(before, after)
       THEN /\ itemPc' = "panicked"
            /\ itemDiff' = itemDiff
       ELSE /\ itemPc' = "returned"
            /\ itemDiff' \in ItemCompareToResults(before, after, clock)
    /\ UNCHANGED <<before, after>>

--------------------------------------------------------------------------
(* ProjectState and CompareProjectStates (pkg/types/types.go) *)

IDsOf(items) == {items[n].ID : n \in DOMAIN items}

\* The lookup built by `m[item.ID] = item` over the items in order: a later
\* item replaces an earlier one with the same ID.
ToMap(items) ==
    [id \in IDsOf(items) |->
        items[CHOOSE n \in DOMAIN items :
                /\ items[n].ID = id
                /\ \A m \in DOMAIN items : items[m].ID = id => m <= n]]

\* The removed-items loop, visiting oldItems in `order`
RemovedItemsOf(oldItems, newItems, order) ==
    LET ids == SelectSeq(order, LAMBDA id : id \notin DOMAIN newItems)
    IN [n \in 1..Len(ids) |-> oldItems[ids[n]]]

\* The added-items loop, visiting newItems in `order`
AddedItemsOf(oldItems, newItems, order) ==
    LET ids == SelectSeq(order, LAMBDA id : id \notin DOMAIN oldItems)
    IN [n \in 1..Len(ids) |-> newItems[ids[n]]]

\* The changed-items loop without the HasChanges test
ChangedItemsOf_NoHasChanges(oldItems, newItems, order, itemDiffs) ==
    LET ids == SelectSeq(order, LAMBDA id : id \in DOMAIN newItems)
    IN [n \in 1..Len(ids) |-> itemDiffs[ids[n]]]

\* The changed-items loop, visiting oldItems in `order`; itemDiffs[id] is
\* what oldItems[id].CompareTo(newItems[id]) returned.
ChangedItemsOf(oldItems, newItems, order, itemDiffs) ==
    LET ids == SelectSeq(order, LAMBDA id : id \in DOMAIN newItems)
        all == [n \in 1..Len(ids) |-> itemDiffs[ids[n]]]
    IN SelectSeq(all, HasChanges)

\* The IDs both states hold: the items the third loop compares.
CommonIDs(old, new) == IDsOf(old) \cap IDsOf(new)

\* The third loop panics when one of its comparisons does.
ProjectComparePanics(old, new) ==
    \E id \in CommonIDs(old, new) : ComparePanics(ToMap(old)[id], ToMap(new)[id])

\* What the comparisons of the third loop can return at time `now`: for
\* each ID of both states, an ItemDiff of the old item against the new one.
ItemDiffChoices(old, new, now) ==
    LET oldItems == ToMap(old)
        newItems == ToMap(new)
        common == CommonIDs(old, new)
        results == [id \in common |->
                      ItemCompareToResults(oldItems[id], newItems[id], now)]
    IN { f \in [common -> UNION {results[id] : id \in common}] :
           \A id \in common : f[id] \in results[id] }

\* The RemovedItems, AddedItems and ChangedItems CompareProjectStates can
\* build: each loop visits its map in an order of its own.
RemovedItemsResults(old, new) ==
    LET oldItems == ToMap(old)
        newItems == ToMap(new)
    IN { RemovedItemsOf(oldItems, newItems, order) : order \in Perms(IDsOf(old)) }

AddedItemsResults(old, new) ==
    LET oldItems == ToMap(old)
        newItems == ToMap(new)
    IN { AddedItemsOf(oldItems, newItems, order) : order \in Perms(IDsOf(new)) }

ChangedItemsResults(old, new, now) ==
    LET oldItems == ToMap(old)
        newItems == ToMap(new)
        choices == ItemDiffChoices(old, new, now)
    IN { ChangedItemsOf(oldItems, newItems, order, itemDiffs) :
           order \in Perms(IDsOf(old)), itemDiffs \in choices }

\* Every ProjectDiff CompareProjectStates(old, new) can return at time `now`
CompareProjectStates(old, new, now) ==
    { [set |-> TRUE, AddedItems |-> added, RemovedItems |-> removed,
       ChangedItems |-> changed] :
        added \in AddedItemsResults(old, new),
        removed \in RemovedItemsResults(old, new),
        changed \in ChangedItemsResults(old, new, now) }

--------------------------------------------------------------------------
(* The project machine: two snapshots, compared any number of times *)

\* The item IDs of the model, in the order the snapshots list them.
ItemIDs == <<"1", "2", "3">>

ItemIDSet == {ItemIDs[n] : n \in DOMAIN ItemIDs}

\* What an item of a snapshot looks like: a base, the base with other dates,
\* and the base with another status and labels.
ItemVariants ==
    { [DateSpan |-> MustNewDateSpan(d20240101, d20240110),
       Attributes |-> [k \in {"status"} |-> Val("string", "Todo")]],
      [DateSpan |-> MustNewDateSpan(d20240110, d20240229),
       Attributes |-> [k \in {"status"} |-> Val("string", "Todo")]],
      [DateSpan |-> MustNewDateSpan(d20240101, d20240110),
       Attributes |-> [k \in {"labels", "status"} |->
                         IF k = "status" THEN Val("string", "Done")
                         ELSE Val("[]interface {}", "[bug]")]] }

\* The Items of a ProjectState: at most MaxItems items with unique IDs,
\* each ID with any of the variants.
ProjectStates ==
    UNION { { LET ids == SelectSeq(ItemIDs, LAMBDA id : id \in present)
              IN [n \in 1..Len(ids) |->
                    [ID |-> ids[n], DateSpan |-> v[ids[n]].DateSpan,
                     Attributes |-> v[ids[n]].Attributes]] :
              v \in [present -> ItemVariants] } :
            present \in { S \in SUBSET ItemIDSet : Cardinality(S) <= MaxItems } }

NoDiff == [set |-> FALSE, AddedItems |-> << >>, RemovedItems |-> << >>,
           ChangedItems |-> << >>]

ProjectInit ==
    /\ oldState \in ProjectStates
    /\ newState \in ProjectStates
    /\ diff = NoDiff
    /\ prevDiff = NoDiff
    /\ pc = "ready"

\* diff := CompareProjectStates(oldState, newState)
CompareProjectStatesCall ==
    /\ pc # "panicked"
    /\ IF ProjectComparePanics(oldState, newState)
       THEN /\ pc' = "panicked"
            /\ UNCHANGED <<diff, prevDiff>>
       ELSE /\ pc' = "returned"
            /\ prevDiff' = diff
            /\ diff' \in CompareProjectStates(oldState, newState, clock)
    /\ UNCHANGED <<oldState, newState>>

--------------------------------------------------------------------------
(* ProjectState.FilterState (pkg/types/project_state.go).  In this machine  *)
(* a Go string is the sequence of its characters, an attribute value holds  *)
(* its Go value (s for a string, n for a whole float64), and a              *)
(* *ProjectState is an address of fHeap.                                    *)

NilPtr == 0

ErrInvalidFilter == "invalid filter format"

\* strings.Index(s, sep) for a one-character sep, counted from 1; 0 when absent
IndexOf(s, sep) ==
    IF \E i \in DOMAIN s : s[i] = sep
    THEN CHOOSE i \in DOMAIN s : s[i] = sep /\ \A j \in 1..(i - 1) : s[j] # sep
    ELSE 0

\* A split in two at the last separator instead of the first
SplitLast(s, sep) ==
    IF IndexOf(s, sep) = 0 THEN <<s>>
    ELSE LET i == CHOOSE i \in DOMAIN s :
                     s[i] = sep /\ \A j \in (i + 1)..Len(s) : s[j] # sep
         IN <<SubSeq(s, 1, i - 1), SubSeq(s, i + 1, Len(s))>>

\* strings.SplitN(s, sep, 2)
SplitN2(s, sep) ==
    LET i == IndexOf(s, sep)
    IN IF i = 0 THEN <<s>>
       ELSE <<SubSeq(s, 1, i - 1), SubSeq(s, i + 1, Len(s))>>

DigitChars == <<"0", "1", "2", "3", "4", "5", "6", "7", "8", "9">>

\* The decimal digits of a natural number
RECURSIVE Decimal(_)
Decimal(n) ==
    IF n < 10 THEN <<DigitChars[n + 1]>>
    ELSE Decimal(n \div 10) \o <<DigitChars[(n % 10) + 1]>>

\* fmt.Sprintf("%v", v): a string prints as itself, a whole float64 below
\* 1e21 as its decimal digits, the nil interface as <nil>.
SprintfV(v) ==
    CASE v.t = "string"  -> v.s
      [] v.t = "float64" -> IF v.n < 0 THEN <<"-">> \o Decimal(-v.n) ELSE Decimal(v.n)
      [] v.t = "nil"     -> <<"<", "n", "i", "l", ">">>

\* The test of the loop with the stringification left out: only strings match
MatchesFilter_StringsOnly(item, attribute, value) ==
    /\ attribute \in DOMAIN item.Attributes
    /\ item.Attributes[attribute].t = "string"
    /\ item.Attributes[attribute].s = value

\* The test of the loop: the item has the attribute and it prints as value
MatchesFilter(item, attribute, value) ==
    /\ attribute \in DOMAIN item.Attributes
    /\ SprintfV(item.Attributes[attribute]) = value

\* FilterState with the matching test left out of the loop
FilterState_KeepsEveryItem(heap, s, filter) ==
    IF filter = << >> THEN [heap |-> heap, ptr |-> s, err |-> ErrNil]
    ELSE IF Len(SplitN2(filter, "=")) # 2
    THEN [heap |-> heap, ptr |-> NilPtr, err |-> ErrInvalidFilter]
    ELSE LET new == (CHOOSE a \in 1..(Cardinality(DOMAIN heap) + 1) :
                       a \notin DOMAIN heap)
         IN [heap |-> [a \in DOMAIN heap \cup {new} |->
                         IF a = new THEN heap[s] ELSE heap[a]],
             ptr |-> new, err |-> ErrNil]

\* FilterState that filters the receiver's Items in place and returns it
FilterState_InPlace(heap, s, filter) ==
    IF filter = << >> THEN [heap |-> heap, ptr |-> s, err |-> ErrNil]
    ELSE IF Len(SplitN2(filter, "=")) # 2
    THEN [heap |-> heap, ptr |-> NilPtr, err |-> ErrInvalidFilter]
    ELSE [heap |-> [heap EXCEPT ![s].Items =
                      SelectSeq(heap[s].Items,
                                LAMBDA item :
                                  MatchesFilter(item, SplitN2(filter, "=")[1],
                                                SplitN2(filter, "=")[2]))],
          ptr |-> s, err |-> ErrNil]

\* FilterState without its early return for the empty filter
FilterState_NoEarlyReturn(heap, s, filter) ==
    LET parts == SplitN2(filter, "=")
    IN IF Len(parts) # 2
       THEN [heap |-> heap, ptr |-> NilPtr, err |-> ErrInvalidFilter]
       ELSE LET filtered ==
                  [heap[s] EXCEPT !.Items =
                     SelectSeq(heap[s].Items,
                               LAMBDA item : MatchesFilter(item, parts[1], parts[2]))]
                new == (CHOOSE a \in 1..(Cardinality(DOMAIN heap) + 1) :
                          a \notin DOMAIN heap)
            IN [heap |-> [a \in DOMAIN heap \cup {new} |->
                            IF a = new THEN filtered ELSE heap[a]],
                ptr |-> new, err |-> ErrNil]

\* s.FilterState(filter): the heap after the call, the pointer and the error
\* returned.  A new ProjectState is allocated at a fresh address.
FilterState(heap, s, filter) ==
    IF filter = << >> THEN [heap |-> heap, ptr |-> s, err |-> ErrNil]
    ELSE LET parts == SplitN2(filter, "=")
         IN IF Len(parts) # 2
            THEN [heap |-> heap, ptr |-> NilPtr, err |-> ErrInvalidFilter]
            ELSE LET attribute == parts[1]
                     value == parts[2]
                     filtered ==
                       [Filename      |-> heap[s].Filename,
                        Timestamp     |-> heap[s].Timestamp,
                        ProjectNumber |-> heap[s].ProjectNumber,
                        ProjectID     |-> heap[s].ProjectID,
                        Organization  |-> heap[s].Organization,
                        Items         |-> SelectSeq(heap[s].Items,
                                            LAMBDA item :
                                              MatchesFilter(item, attribute, value))]
                     new == (CHOOSE a \in 1..(Cardinality(DOMAIN heap) + 1) :
                               a \notin DOMAIN heap)
                 IN [heap |-> [a \in DOMAIN heap \cup {new} |->
                                 IF a = new THEN filtered ELSE heap[a]],
                     ptr |-> new, err |-> ErrNil]

--------------------------------------------------------------------------
(* The filter machine: one call of s.FilterState(filter) *)

FilterAlphabet == {"a", "=", "1"}

FilterStrings == UNION { [1..n -> FilterAlphabet] : n \in 0..MaxFilterLen }

StringValue(s) == [t |-> "string", s |-> s, n |-> 0]
FloatValue(n) == [t |-> "float64", s |-> << >>, n |-> n]
FilterNil == [t |-> "nil", s |-> << >>, n |-> 0]

\* The attribute maps of the machine: "a" missing, "a" a string, a number
\* or nil, and "a" next to a second attribute "1".
FilterBags ==
    { << >> }
    \cup { [k \in {<<"a">>} |-> v] :
             v \in {StringValue(<<"1">>), StringValue(<<"=", "1">>),
                    StringValue(<< >>), FloatValue(1), FilterNil} }
    \cup { [k \in {<<"a">>, <<"1">>} |->
              IF k = <<"a">> THEN StringValue(<<"1">>) ELSE StringValue(<<"a">>)] }

\* The Items of the receiver: at most MaxFilterItems, IDs "1", "2", ...
FilterItems ==
    UNION { { [i \in 1..n |-> [ID |-> ItemIDs[i], DateSpan |-> ZeroDateSpan,
                               Attributes |-> bags[i]]] :
                bags \in [1..n -> FilterBags] } :
            n \in 0..MaxFilterItems }

\* The metadata of the receiver: all zero values, and all set
FilterMetadata ==
    { [Filename |-> "", Timestamp |-> 0, ProjectNumber |-> 0, ProjectID |-> "",
       Organization |-> ""],
      [Filename |-> "test.json", Timestamp |-> 738885, ProjectNumber |-> 123,
       ProjectID |-> "PVT_123", Organization |-> "test-org"] }

\* The address of the receiver
Recv == 1

EmptyState ==
    [Filename |-> "", Timestamp |-> 0, ProjectNumber |-> 0, ProjectID |-> "",
     Organization |-> "", Items |-> << >>]

\* input is the ProjectState the receiver held when FilterState was called
NoFilterCall ==
    [pc |-> "ready", filter |-> << >>, input |-> EmptyState,
     ptr |-> NilPtr, err |-> ErrNil]

FilterInit ==
    /\ \E m \in FilterMetadata, items \in FilterItems :
         fHeap = [a \in {Recv} |-> [Items |-> items] @@ m]
    /\ fCall = NoFilterCall

\* ptr, err := s.FilterState(filter)
FilterStateCall(filter) ==
    /\ fCall.pc = "ready"
    /\ LET r == FilterState(fHeap, Recv, filter)
       IN /\ fHeap' = r.heap
          /\ fCall' = [pc |-> "returned", filter |-> filter,
                       input |-> fHeap[Recv], ptr |-> r.ptr, err |-> r.err]

--------------------------------------------------------------------------
(* Delay classification and duration rendering (pkg/format/markdown.go,    *)
(* pkg/format/types.go).  The string formatHumanDuration returns is the    *)
(* sequence of its characters.                                              *)

DelayLevelOnTrack == "On track"
DelayLevelAhead == "Ahead of schedule"
DelayLevelModerate == "Moderate delay"
DelayLevelHigh == "High delay"
DelayLevelExtreme == "Extreme delay"

\* calculateDelayLevel with the thresholds tested from the least severe up
calculateDelayLevel_LeastSevereFirst(durationDelta, moderateDelay, highDelay, extremeDelay) ==
    IF durationDelta < 0 THEN DelayLevelAhead
    ELSE IF durationDelta = 0 THEN DelayLevelOnTrack
    ELSE IF durationDelta < moderateDelay THEN DelayLevelOnTrack
    ELSE IF durationDelta < highDelay THEN DelayLevelModerate
    ELSE IF durationDelta < extremeDelay THEN DelayLevelHigh
    ELSE DelayLevelExtreme

calculateDelayLevel(durationDelta, moderateDelay, highDelay, extremeDelay) ==
    IF durationDelta < 0 THEN DelayLevelAhead
    ELSE IF durationDelta = 0 THEN DelayLevelOnTrack
    ELSE IF durationDelta >= extremeDelay THEN DelayLevelExtreme
    ELSE IF durationDelta >= highDelay THEN DelayLevelHigh
    ELSE IF durationDelta >= moderateDelay THEN DelayLevelModerate
    ELSE DelayLevelOnTrack

\* calculateTimelineDelayLevel with `||` in its test for being ahead
calculateTimelineDelayLevel_AheadOnEither(startDaysDelta, durationDelta, moderateDelay, highDelay, extremeDelay) ==
    IF startDaysDelta < 0 \/ durationDelta <= 0 THEN DelayLevelAhead
    ELSE LET maxDelay == IF durationDelta > startDaysDelta
                         THEN durationDelta ELSE startDaysDelta
         IN IF maxDelay = 0 THEN DelayLevelOnTrack
            ELSE IF maxDelay >= extremeDelay THEN DelayLevelExtreme
            ELSE IF maxDelay >= highDelay THEN DelayLevelHigh
            ELSE IF maxDelay >= moderateDelay THEN DelayLevelModerate
            ELSE DelayLevelOnTrack

calculateTimelineDelayLevel(startDaysDelta, durationDelta, moderateDelay, highDelay, extremeDelay) ==
    IF startDaysDelta < 0 /\ durationDelta <= 0 THEN DelayLevelAhead
    ELSE LET maxDelay == IF durationDelta > startDaysDelta
                         THEN durationDelta ELSE startDaysDelta
         IN IF maxDelay = 0 THEN DelayLevelOnTrack
            ELSE IF maxDelay >= extremeDelay THEN DelayLevelExtreme
            ELSE IF maxDelay >= highDelay THEN DelayLevelHigh
            ELSE IF maxDelay >= moderateDelay THEN DelayLevelModerate
            ELSE DelayLevelOnTrack

\* pluralize(n): "s" unless n is 1
pluralize(n) == IF n = 1 THEN << >> ELSE <<"s">>

WordNoChange == <<"n", "o", " ", "c", "h", "a", "n", "g", "e">>
WordYear == <<"y", "e", "a", "r">>
WordMonth == <<"m", "o", "n", "t", "h">>
WordWeek == <<"w", "e", "e", "k">>
WordDay == <<"d", "a", "y">>

\* fmt.Sprintf("%d <unit>%s", n, pluralize(n))
SprintfUnit(n, unit) == Decimal(n) \o <<" ">> \o unit \o pluralize(n)

\* fmt.Sprintf("%d <unit>%s %d <unit2>%s", n, pluralize(n), n2, pluralize(n2))
SprintfUnits(n, unit, n2, unit2) ==
    SprintfUnit(n, unit) \o <<" ">> \o SprintfUnit(n2, unit2)

\* formatHumanDuration with a month of 31 days
formatHumanDuration_Month31(days) ==
    IF days = 0 THEN WordNoChange
    ELSE LET years == days \div 365
             afterYears == days % 365
             months == afterYears \div 31
             afterMonths == afterYears % 31
             weeks == afterMonths \div 7
             remainingDays == afterMonths % 7
         IN IF years > 0
            THEN IF months = 0 THEN SprintfUnit(years, WordYear)
                 ELSE SprintfUnits(years, WordYear, months, WordMonth)
            ELSE IF months > 0
            THEN IF weeks = 0 THEN SprintfUnit(months, WordMonth)
                 ELSE SprintfUnits(months, WordMonth, weeks, WordWeek)
            ELSE IF weeks > 0
            THEN IF remainingDays = 0 THEN SprintfUnit(weeks, WordWeek)
                 ELSE SprintfUnits(weeks, WordWeek, remainingDays, WordDay)
            ELSE SprintfUnit(days, WordDay)

\* formatHumanDuration that drops the second unit
formatHumanDuration_OneUnit(days) ==
    IF days = 0 THEN WordNoChange
    ELSE LET years == days \div 365
             afterYears == days % 365
             months == afterYears \div 30
             weeks == (afterYears % 30) \div 7
         IN IF years > 0 THEN SprintfUnit(years, WordYear)
            ELSE IF months > 0 THEN SprintfUnit(months, WordMonth)
            ELSE IF weeks > 0 THEN SprintfUnit(weeks, WordWeek)
            ELSE SprintfUnit(days, WordDay)

\* formatHumanDuration(days) for days >= 0, where Go's / and % are \div and %
formatHumanDuration(days) ==
    IF days = 0 THEN WordNoChange
    ELSE LET years == days \div 365
             afterYears == days % 365
             months == afterYears \div 30
             afterMonths == afterYears % 30
             weeks == afterMonths \div 7
             remainingDays == afterMonths % 7
         IN IF years > 0
            THEN IF months = 0 THEN SprintfUnit(years, WordYear)
                 ELSE SprintfUnits(years, WordYear, months, WordMonth)
            ELSE IF months > 0
            THEN IF weeks = 0 THEN SprintfUnit(months, WordMonth)
                 ELSE SprintfUnits(months, WordMonth, weeks, WordWeek)
            ELSE IF weeks > 0
            THEN IF remainingDays = 0 THEN SprintfUnit(weeks, WordWeek)
                 ELSE SprintfUnits(weeks, WordWeek, remainingDays, WordDay)
            ELSE SprintfUnit(days, WordDay)

--------------------------------------------------------------------------
(* The delay machine and the duration machine: one call each *)

\* Day deltas and thresholds: any order of thresholds, negative ones too
DelayRange == (-MaxDelay)..MaxDelay

\* The arguments <<startDaysDelta, durationDelta, moderate, high, extreme>>
\* of a call: all of the range, and the thresholds 7/14/30 of the tests.
DelayArguments ==
    (DelayRange \X DelayRange \X DelayRange \X DelayRange \X DelayRange)
    \cup ({0, 10, 35} \X {-5, 6, 7, 14, 20, 30} \X {7} \X {14} \X {30})

NoLevelCall ==
    [pc |-> "ready", fn |-> "", args |-> <<0, 0, 0, 0, 0>>, level |-> ""]

DelayInit == lvCall = NoLevelCall

\* level := calculateDelayLevel(durationDelta, moderate, high, extreme); the
\* function takes no start delta, the first component of args stays 0
CalculateDelayLevelCall ==
    /\ lvCall.pc = "ready"
    /\ \E args \in DelayArguments :
         /\ args[1] = 0
         /\ lvCall' = [pc |-> "returned", fn |-> "calculateDelayLevel",
                       args |-> args,
                       level |-> calculateDelayLevel(args[2], args[3], args[4],
                                                     args[5])]

\* level := calculateTimelineDelayLevel(startDaysDelta, durationDelta, ...)
CalculateTimelineDelayLevelCall ==
    /\ lvCall.pc = "ready"
    /\ \E args \in DelayArguments :
         lvCall' = [pc |-> "returned", fn |-> "calculateTimelineDelayLevel",
                    args |-> args,
                    level |-> calculateTimelineDelayLevel(args[1], args[2], args[3],
                                                          args[4], args[5])]

NoDurationCall == [pc |-> "ready", days |-> 0, out |-> << >>]

DurationInit == hCall = NoDurationCall

\* out := formatHumanDuration(days)
FormatHumanDurationCall(days) ==
    /\ hCall.pc = "ready"
    /\ hCall' = [pc |-> "returned", days |-> days, out |-> formatHumanDuration(days)]

--------------------------------------------------------------------------
(* Store.SaveState and Store.LoadStateFile (pkg/storage/storage.go) with   *)
(* encoding/json as they use it.  A JSON value is [k |-> its kind, text |-> *)
(* its text]; a time.Time of a struct field is its day number and prints    *)
(* as the characters of its RFC 3339 form.                                  *)

\* A number in `width` decimal digits, zero padded
Pad(n, width) ==
    LET d == Decimal(n)
    IN [i \in 1..(width - Len(d)) |-> "0"] \o d

\* The year, month and day of the month of a day number
YearOf(t) ==
    CHOOSE y \in ((t \div 366) + 1)..((t \div 365) + 1) :
      DaysBeforeYear(y) <= t /\ t < DaysBeforeYear(y + 1)

MonthOf(t) ==
    CHOOSE m \in 1..12 :
      LET rest == t - DaysBeforeYear(YearOf(t))
      IN /\ DaysBeforeMonth(m, YearOf(t)) <= rest
         /\ rest < DaysBeforeMonth(m, YearOf(t)) + DaysIn(m, YearOf(t))

DayOf(t) == t - DaysBeforeYear(YearOf(t)) - DaysBeforeMonth(MonthOf(t), YearOf(t)) + 1

MidnightUTC == <<"T", "0", "0", ":", "0", "0", ":", "0", "0", "Z">>

\* Time.MarshalJSON of a calendar date: 2006-01-02T15:04:05Z
MarshalTime(t) ==
    Pad(YearOf(t), 4) \o <<"-">> \o Pad(MonthOf(t), 2) \o <<"-">>
      \o Pad(DayOf(t), 2) \o MidnightUTC

\* Time.UnmarshalJSON of such a text
UnmarshalTime(str) ==
    IF Len(str) = 20 /\ SubSeq(str, 11, 20) = MidnightUTC
    THEN ParseDate(SubSeq(str, 1, 10))
    ELSE [ok |-> FALSE, t |-> 0]

\* The RFC 3339 text of a time.Time attribute value, from its %v text
RFC3339Of(v) ==
    CASE v = "2024-01-01 00:00:00 +0000 UTC" -> "2024-01-01T00:00:00Z"
      [] v = "0001-01-01 00:00:00 +0000 UTC" -> "0001-01-01T00:00:00Z"

\* json.Marshal of an interface{} value: a string and a time.Time become
\* JSON strings, a float64 a JSON number, nil becomes null.
MarshalValue(val) ==
    CASE val.t = "string"    -> [k |-> "string", text |-> val.v]
      [] val.t = "float64"   -> [k |-> "number", text |-> val.v]
      [] val.t = "time.Time" -> [k |-> "string", text |-> RFC3339Of(val.v)]
      [] val.t = "nil"       -> [k |-> "null", text |-> "null"]

\* json.Unmarshal into an interface{}: a JSON string becomes a string, a
\* JSON number a float64, null the nil interface.
UnmarshalValue(j) ==
    CASE j.k = "string" -> Val("string", j.text)
      [] j.k = "number" -> Val("float64", j.text)
      [] j.k = "null"   -> NilValue

\* Unmarshal that keeps every value as the string of its text
UnmarshalValue_AllStrings(j) == Val("string", j.text)

MarshalItem(item) ==
    [ID |-> item.ID,
     DateSpan |-> [Start |-> MarshalTime(item.DateSpan.Start),
                   End   |-> MarshalTime(item.DateSpan.End)],
     Attributes |-> [key \in DOMAIN item.Attributes |->
                       MarshalValue(item.Attributes[key])]]

UnmarshalItem(j) ==
    [ID |-> j.ID,
     DateSpan |-> [Start |-> UnmarshalTime(j.DateSpan.Start).t,
                   End   |-> UnmarshalTime(j.DateSpan.End).t],
     Attributes |-> [key \in DOMAIN j.Attributes |->
                       UnmarshalValue(j.Attributes[key])]]

\* json.MarshalIndent(state, "", "  ")
MarshalState(state) ==
    [filename |-> state.Filename,
     timestamp |-> MarshalTime(state.Timestamp),
     project_number |-> state.ProjectNumber,
     project_id |-> state.ProjectID,
     organization |-> state.Organization,
     items |-> [n \in DOMAIN state.Items |-> MarshalItem(state.Items[n])]]

\* json.Unmarshal(data, &state)
UnmarshalState(doc) ==
    [Filename |-> doc.filename,
     Timestamp |-> UnmarshalTime(doc.timestamp).t,
     ProjectNumber |-> doc.project_number,
     ProjectID |-> doc.project_id,
     Organization |-> doc.organization,
     Items |-> [n \in DOMAIN doc.items |-> UnmarshalItem(doc.items[n])]]

\* item.GetTitle(): the Title attribute when it is a string, else ""
GetTitle(item) ==
    IF "Title" \in DOMAIN item.Attributes /\ item.Attributes["Title"].t = "string"
    THEN item.Attributes["Title"].v ELSE ""

\* validateState(state) returns nil
ValidState(state) ==
    /\ state.ProjectNumber # 0
    /\ \A n \in DOMAIN state.Items :
         /\ state.Items[n].ID # ""
         /\ GetTitle(state.Items[n]) # ""
         /\ \A key \in DOMAIN state.Items[n].Attributes :
              state.Items[n].Attributes[key] # NilValue

\* The file SaveState writes: states/project=<number>/<unix time>.json
StateFile(state) == [project |-> state.ProjectNumber, unix |-> state.Timestamp]

--------------------------------------------------------------------------
(* The storage machine: a state is saved, loaded back and compared *)

TimeValue == Val("time.Time", "2024-01-01 00:00:00 +0000 UTC")

\* Attribute maps of the items saved: a title alone, with a number, with a
\* status, with the created_at time the capture sets; a nil value and a
\* missing title, which validateState refuses.
StoredBags ==
    { [k \in {"Title"} |-> Val("string", "Task")],
      [k \in {"Title", "Priority"} |->
         IF k = "Title" THEN Val("string", "Task") ELSE Val("float64", "1")],
      [k \in {"Title", "status"} |->
         IF k = "Title" THEN Val("string", "Task") ELSE Val("string", "Todo")],
      [k \in {"Title", "created_at"} |->
         IF k = "Title" THEN Val("string", "Task") ELSE TimeValue],
      [k \in {"Title", "status"} |->
         IF k = "Title" THEN Val("string", "Task") ELSE NilValue],
      [k \in {"status"} |-> Val("string", "Todo")] }

StoredSpans == {ZeroDateSpan, MustNewDateSpan(d20240101, d20240110)}

StoredItems ==
    UNION { { [i \in 1..n |-> [ID |-> ItemIDs[i], DateSpan |-> spans[i],
                               Attributes |-> bags[i]]] :
                bags \in [1..n -> StoredBags], spans \in [1..n -> StoredSpans] } :
            n \in 0..MaxStoredItems }

StoredStates ==
    { [Filename |-> "", Timestamp |-> 738885, ProjectNumber |-> number,
       ProjectID |-> "PVT_123", Organization |-> "test-org", Items |-> items] :
        number \in {0, 123}, items \in StoredItems }

NoStoreCall ==
    [pc |-> "ready", state |-> EmptyState, loaded |-> EmptyState, diff |-> NoDiff]

StoreInit ==
    /\ disk = << >>
    /\ \E state \in StoredStates : sCall = [NoStoreCall EXCEPT !.state = state]

\* filename, err := store.SaveState(state)
SaveStateCall ==
    /\ sCall.pc = "ready"
    /\ IF ~ValidState(sCall.state)
       THEN /\ sCall' = [sCall EXCEPT !.pc = "invalid state"]
            /\ disk' = disk
       ELSE /\ sCall' = [sCall EXCEPT !.pc = "saved"]
            /\ disk' = [f \in DOMAIN disk \cup {StateFile(sCall.state)} |->
                          IF f = StateFile(sCall.state)
                          THEN MarshalState(sCall.state) ELSE disk[f]]

\* loaded, err := store.LoadStateFile(filename)
LoadStateFileCall ==
    /\ sCall.pc = "saved"
    /\ sCall' = [sCall EXCEPT !.pc = "loaded",
                              !.loaded = UnmarshalState(disk[StateFile(sCall.state)])]
    /\ disk' = disk

\* diff := CompareProjectStates(state, loaded)
CompareLoadedCall ==
    /\ sCall.pc = "loaded"
    /\ \E d \in CompareProjectStates(sCall.state.Items, sCall.loaded.Items, clock) :
         sCall' = [sCall EXCEPT !.pc = "compared", !.diff = d]
    /\ disk' = disk

--------------------------------------------------------------------------
(* The table formatters: TableFormatter.Format (pkg/format/markdown.go)   *)
(* and PlainTableFormatter.Format.  A cell is a sequence of strings, its   *)
(* text written in pieces; a row is a sequence of cells.  The Document is  *)
(* rendered as its title and, section by section, the section title, the   *)
(* column headers and the rows; the renderers' borders and padding spaces  *)
(* are not part of the output modelled here.                               *)

abs(n) == IF n < 0 THEN -n ELSE n

LayoutDefault == "Jan 2, 2006"
LayoutISO == "2006-01-02"

MonthAbbr ==
    <<<<"J", "a", "n">>,
      <<"F", "e", "b">>,
      <<"M", "a", "r">>,
      <<"A", "p", "r">>,
      <<"M", "a", "y">>,
      <<"J", "u", "n">>,
      <<"J", "u", "l">>,
      <<"A", "u", "g">>,
      <<"S", "e", "p">>,
      <<"O", "c", "t">>,
      <<"N", "o", "v">>,
      <<"D", "e", "c">>>>

\* formatDate(t, format): t.Format(format) for the two layouts in use
formatDate(t, format) ==
    IF format = LayoutISO
    THEN Pad(YearOf(t), 4) \o <<"-">> \o Pad(MonthOf(t), 2) \o <<"-">>
           \o Pad(DayOf(t), 2)
    ELSE MonthAbbr[MonthOf(t)] \o <<" ">> \o Decimal(DayOf(t)) \o <<",", " ">>
           \o Pad(YearOf(t), 4)

Arrow == <<" ", "→", " ">>

\* formatDateWithChange(after, before, format)
formatDateWithChange(afterTime, beforeTime, format) ==
    IF afterTime = beforeTime THEN formatDate(afterTime, format)
    ELSE formatDate(beforeTime, format) \o Arrow \o formatDate(afterTime, format)

\* strings.ToUpper of the first letter a detail text can start with
ToUpper(c) == CASE c = "s" -> "S" [] c = "d" -> "D" [] OTHER -> c

\* formatTimelineDetails with a duration part for every DurationDelta but 0
formatTimelineDetails_DurationWheneverChanged(change) ==
    LET startPart ==
          IF change.StartDaysDelta # 0
          THEN << <<"s", "t", "a", "r", "t", " ">>
                    \o (IF change.StartDaysDelta < 0
                        THEN <<"m", "o", "v", "e", "d", " ", "e", "a", "r", "l", "i", "e", "r">>
                        ELSE <<"d", "e", "l", "a", "y", "e", "d">>)
                    \o <<" ", "b", "y", " ">>
                    \o formatHumanDuration(abs(change.StartDaysDelta)) >>
          ELSE << >>
        durationPart ==
          IF change.DurationDelta # 0
          THEN << <<"d", "u", "r", "a", "t", "i", "o", "n", " ">>
                    \o (IF change.DurationDelta < 0
                        THEN <<"d", "e", "c", "r", "e", "a", "s", "e", "d">>
                        ELSE <<"i", "n", "c", "r", "e", "a", "s", "e", "d">>)
                    \o <<" ", "b", "y", " ">>
                    \o formatHumanDuration(abs(change.DurationDelta)) >>
          ELSE << >>
        parts == startPart \o durationPart
        result == IF Len(parts) = 2 THEN parts[1] \o <<",", " ">> \o parts[2]
                  ELSE parts[1]
    IN IF Len(parts) = 0 THEN <<"N", "o", " ", "t", "i", "m", "e", "l", "i", "n", "e", " ", "c", "h", "a", "n", "g", "e", "s">>
       ELSE <<ToUpper(result[1])>> \o Tail(result)

\* formatTimelineDetails(change, before, after)
formatTimelineDetails(change) ==
    LET startPart ==
          IF change.StartDaysDelta # 0
          THEN << <<"s", "t", "a", "r", "t", " ">>
                    \o (IF change.StartDaysDelta < 0
                        THEN <<"m", "o", "v", "e", "d", " ", "e", "a", "r", "l", "i", "e", "r">>
                        ELSE <<"d", "e", "l", "a", "y", "e", "d">>)
                    \o <<" ", "b", "y", " ">>
                    \o formatHumanDuration(abs(change.StartDaysDelta)) >>
          ELSE << >>
        durationPart ==
          IF /\ change.DurationDelta # 0
             /\ change.EndDaysDelta # 0
             /\ change.EndDaysDelta # change.StartDaysDelta
          THEN << <<"d", "u", "r", "a", "t", "i", "o", "n", " ">>
                    \o (IF change.DurationDelta < 0
                        THEN <<"d", "e", "c", "r", "e", "a", "s", "e", "d">>
                        ELSE <<"i", "n", "c", "r", "e", "a", "s", "e", "d">>)
                    \o <<" ", "b", "y", " ">>
                    \o formatHumanDuration(abs(change.DurationDelta)) >>
          ELSE << >>
        parts == startPart \o durationPart
        result == IF Len(parts) = 2 THEN parts[1] \o <<",", " ">> \o parts[2]
                  ELSE parts[1]
    IN IF Len(parts) = 0 THEN <<"N", "o", " ", "t", "i", "m", "e", "l", "i", "n", "e", " ", "c", "h", "a", "n", "g", "e", "s">>
       ELSE <<ToUpper(result[1])>> \o Tail(result)

\* fmt.Sprintf(" (%+d days)", n)
SprintfDays(n) ==
    <<" ", "(">> \o (IF n < 0 THEN <<"-">> ELSE <<"+">>) \o Decimal(abs(n))
      \o <<" ", "d", "a", "y", "s", ")">>

\* fmt.Sprintf("%v", v) of an attribute value: a string prints as itself,
\* nil as <nil>; a number and a time are held as their text.
SprintV(val) == val.v

\* fmt.Sprintf("%v → %v", fieldChange.OldValue, fieldChange.NewValue)
SprintfChange(fieldChange) ==
    <<SprintV(fieldChange.OldValue), " → ", SprintV(fieldChange.NewValue)>>

Dash == <<"-">>

TimelineColumns == <<"Task", "Status", "Details", "Start Date", "End Date", "Duration">>

\* The row of an added ("Added", "New task") or removed item
ItemRow(item, status, details, options) ==
    << <<GetTitle(item)>>, <<status>>, <<details>>,
       formatDate(item.DateSpan.Start, options.DateFormat),
       formatDate(item.DateSpan.End, options.DateFormat),
       formatHumanDuration(DurationDays(item.DateSpan)) >>

\* The row of a changed item whose DateChange is not nil
ChangeRow(change, delay, options) ==
    << <<GetTitle(change.After)>>, <<delay>>,
       formatTimelineDetails(change.DateChange),
       formatDateWithChange(change.After.DateSpan.Start,
                            change.Before.DateSpan.Start, options.DateFormat),
       formatDateWithChange(change.After.DateSpan.End,
                            change.Before.DateSpan.End, options.DateFormat),
       formatHumanDuration(DurationDays(change.After.DateSpan))
         \o (IF change.DateChange.DurationDelta # 0
             THEN SprintfDays(change.DateChange.DurationDelta) ELSE << >>) >>

RECURSIVE AddedRows(_, _)
AddedRows(items, options) ==
    IF items = << >> THEN << >>
    ELSE <<ItemRow(Head(items), "Added", "New task", options)>>
           \o AddedRows(Tail(items), options)

RECURSIVE RemovedRows(_, _)
RemovedRows(items, options) ==
    IF items = << >> THEN << >>
    ELSE <<ItemRow(Head(items), "Removed", "Task removed", options)>>
           \o RemovedRows(Tail(items), options)

\* The classifier TableFormatter.Format calls on a changed item
calculateTimelineRiskLevel(startDaysDelta, durationDelta, moderateRisk, highRisk, extremeRisk) ==
    calculateTimelineDelayLevel(startDaysDelta, durationDelta, moderateRisk,
                                highRisk, extremeRisk)

\* The loop over diff.ChangedItems of TableFormatter.Format
RECURSIVE TableChangedRows(_, _)
TableChangedRows(changes, options) ==
    IF changes = << >> THEN << >>
    ELSE LET change == Head(changes)
         IN (IF ~change.DateChange.nil
             THEN <<ChangeRow(change,
                     calculateTimelineRiskLevel(change.DateChange.StartDaysDelta,
                       change.DateChange.DurationDelta, options.Moderate,
                       options.High, options.Extreme),
                     options)>>
             ELSE << >>)
            \o TableChangedRows(Tail(changes), options)

\* The loop over diff.ChangedItems with a row for every changed item
RECURSIVE PlainChangedRows_EveryChange(_, _)
PlainChangedRows_EveryChange(changes, options) ==
    IF changes = << >> THEN << >>
    ELSE LET change == Head(changes)
         IN <<ChangeRow(change,
                calculateTimelineDelayLevel(change.DateChange.StartDaysDelta,
                  change.DateChange.DurationDelta, options.Moderate,
                  options.High, options.Extreme),
                options)>>
            \o PlainChangedRows_EveryChange(Tail(changes), options)

\* The loop over diff.ChangedItems of PlainTableFormatter.Format
RECURSIVE PlainChangedRows(_, _)
PlainChangedRows(changes, options) ==
    IF changes = << >> THEN << >>
    ELSE LET change == Head(changes)
         IN (IF ~change.DateChange.nil
             THEN <<ChangeRow(change,
                     calculateTimelineDelayLevel(change.DateChange.StartDaysDelta,
                       change.DateChange.DurationDelta, options.Moderate,
                       options.High, options.Extreme),
                     options)>>
             ELSE << >>)
            \o PlainChangedRows(Tail(changes), options)

\* hasFieldChanges(changes)
hasFieldChanges(changes) ==
    \E n \in DOMAIN changes : Len(changes[n].FieldChanges) > 0

\* The field names PlainTableFormatter leaves out of the other-changes table
PlainSkipped == {"start", "end", "updated_at", "created_at"}

\* sortedFields: the names of the changed fields that are shown, sorted
PlainSortedFields(changes) ==
    SelectSeq(FieldNames,
              LAMBDA field :
                /\ field \notin PlainSkipped
                /\ \E n \in DOMAIN changes :
                     \E k \in DOMAIN changes[n].FieldChanges :
                       changes[n].FieldChanges[k].Field = field)

\* The cell of a column: the change of that field, "-" when there is none
FieldCell(change, field) ==
    IF \E k \in DOMAIN change.FieldChanges : change.FieldChanges[k].Field = field
    THEN SprintfChange(change.FieldChanges[
           CHOOSE k \in DOMAIN change.FieldChanges :
             change.FieldChanges[k].Field = field])
    ELSE Dash

\* The rows of PlainTableFormatter's other-changes table
RECURSIVE PlainOtherRows(_, _)
PlainOtherRows(changes, sortedFields) ==
    IF changes = << >> THEN << >>
    ELSE LET change == Head(changes)
             hasNonTimeChange ==
               \E k \in DOMAIN change.FieldChanges :
                 change.FieldChanges[k].Field \notin PlainSkipped
         IN (IF Len(change.FieldChanges) > 0 /\ hasNonTimeChange
             THEN << <<<<GetTitle(change.After)>>>>
                       \o [i \in DOMAIN sortedFields |->
                             FieldCell(change, sortedFields[i])] >>
             ELSE << >>)
            \o PlainOtherRows(Tail(changes), sortedFields)

\* The columns of TableFormatter's other-changes table and their fields
TableOtherColumns == <<"Task", "Status", "Priority", "Owner">>
TableOtherFields == <<"status", "priority", "owner">>

\* The rows of TableFormatter's other-changes table
RECURSIVE TableOtherRows(_)
TableOtherRows(changes) ==
    IF changes = << >> THEN << >>
    ELSE LET change == Head(changes)
             row == << <<GetTitle(change.After)>> >>
                      \o [i \in DOMAIN TableOtherFields |->
                            FieldCell(change, TableOtherFields[i])]
         IN (IF /\ Len(change.FieldChanges) > 0
                /\ (row[2] # Dash \/ row[3] # Dash \/ row[4] # Dash)
             THEN <<row>> ELSE << >>)
            \o TableOtherRows(Tail(changes))

TimelineTitle == "Timeline Changes"
OtherTitle == "Other Changes"

Section(title, columns, rows) == [Title |-> title, Columns |-> columns, Rows |-> rows]

\* doc.Sections: a section is appended only when its table has rows
Sections(timelineRows, otherColumns, otherRows) ==
    (IF Len(timelineRows) > 0
     THEN <<Section(TimelineTitle, TimelineColumns, timelineRows)>> ELSE << >>)
    \o (IF Len(otherRows) > 0
        THEN <<Section(OtherTitle, otherColumns, otherRows)>> ELSE << >>)

\* RenderTable / renderTable: every row is written with one cell per column,
\* a missing cell as "-"
RenderTable(t) ==
    [t EXCEPT !.Rows = [r \in DOMAIN t.Rows |->
                          [i \in DOMAIN t.Columns |->
                             IF i <= Len(t.Rows[r]) THEN t.Rows[r][i] ELSE Dash]]]

\* RenderDocument / renderDocument
RenderDocument(doc) ==
    [Title |-> doc.Title,
     Sections |-> [n \in DOMAIN doc.Sections |-> RenderTable(doc.Sections[n])]]

NoChangesFound == [Title |-> "No changes found in the project timeline.",
                   Sections |-> << >>]

IsEmptyDiff(d) ==
    Len(d.AddedItems) = 0 /\ Len(d.RemovedItems) = 0 /\ Len(d.ChangedItems) = 0

\* TableFormatter.Format(diff)
TableFormat(d, options) ==
    IF IsEmptyDiff(d) THEN NoChangesFound
    ELSE RenderDocument(
           [Title |-> "Project Timeline Analysis",
            Sections |->
              Sections(AddedRows(d.AddedItems, options)
                         \o RemovedRows(d.RemovedItems, options)
                         \o TableChangedRows(d.ChangedItems, options),
                       TableOtherColumns,
                       IF hasFieldChanges(d.ChangedItems)
                       THEN TableOtherRows(d.ChangedItems) ELSE << >>)])

\* PlainTableFormatter.Format(diff)
PlainTableFormat(d, options) ==
    IF IsEmptyDiff(d) THEN NoChangesFound
    ELSE RenderDocument(
           [Title |-> "Project Timeline Analysis",
            Sections |->
              Sections(AddedRows(d.AddedItems, options)
                         \o RemovedRows(d.RemovedItems, options)
                         \o PlainChangedRows(d.ChangedItems, options),
                       <<"Task">> \o PlainSortedFields(d.ChangedItems),
                       IF hasFieldChanges(d.ChangedItems)
                       THEN PlainOtherRows(d.ChangedItems,
                                           PlainSortedFields(d.ChangedItems))
                       ELSE << >>)])

--------------------------------------------------------------------------
(* The formatter machine: two snapshots are compared and the diff is     *)
(* formatted by one of the table formatters                              *)

DefaultOptions ==
    [DateFormat |-> LayoutDefault, Moderate |-> 7, High |-> 14, Extreme |-> 30]

\* The defaults, and the options a caller sets: WithDateFormat,
\* WithHighDelayThreshold
DocOptions ==
    { DefaultOptions,
      [DefaultOptions EXCEPT !.DateFormat = LayoutISO, !.High = 9] }

DocItemIDs == [n \in 1..MaxDocItems |-> DigitChars[n + 1]]

d20240105 == Str(<<"2","0","2","4">>, <<"0","1">>, <<"0","5">>)
d20240124 == Str(<<"2","0","2","4">>, <<"0","1">>, <<"2","4">>)

\* The attributes of the old item: a title and a status
DocBag(status) ==
    [k \in {"Title", "status"} |->
       IF k = "Title" THEN Val("string", "Task") ELSE Val("string", status)]

DocCreated == Val("time.Time", "2024-02-01 00:00:00 +0000 UTC")

\* The item of the old snapshot
DocOldVariant ==
    [DateSpan |-> MustNewDateSpan(d20240105, d20240110),
     Attributes |-> DocBag("Todo")]

\* The items of the new snapshot: unchanged; later and longer; earlier and
\* no longer; longer with another status; with labels; with a created_at;
\* with a "start" attribute; another status and a created_at.
DocNewVariants ==
    { DocOldVariant,
      [DocOldVariant EXCEPT !.DateSpan = MustNewDateSpan(d20240110, d20240124)],
      [DocOldVariant EXCEPT !.DateSpan = MustNewDateSpan(d20240101, d20240105)],
      [DocOldVariant EXCEPT !.DateSpan = MustNewDateSpan(d20240105, d20240229),
                            !.Attributes = DocBag("Done")],
      [DocOldVariant EXCEPT
         !.Attributes = ("labels" :> Val("string", "bug")) @@ DocBag("Todo")],
      [DocOldVariant EXCEPT
         !.Attributes = ("created_at" :> DocCreated) @@ DocBag("Todo")],
      [DocOldVariant EXCEPT
         !.Attributes = ("start" :> Val("string", "Q2")) @@ DocBag("Todo")],
      [DocOldVariant EXCEPT
         !.Attributes = ("created_at" :> DocCreated) @@ DocBag("Done")] }

DocItems(variants) ==
    UNION { { LET ids == SelectSeq(DocItemIDs, LAMBDA id : id \in present)
              IN [n \in 1..Len(ids) |->
                    [ID |-> ids[n], DateSpan |-> v[ids[n]].DateSpan,
                     Attributes |-> [v[ids[n]].Attributes EXCEPT
                                       !["Title"] = Val("string", ids[n])]]] :
              v \in [present -> variants] } :
            present \in SUBSET {DocItemIDs[n] : n \in DOMAIN DocItemIDs} }

NoDocCall ==
    [pc |-> "ready", old |-> << >>, new |-> << >>, options |-> DefaultOptions,
     diff |-> NoDiff, formatter |-> "", out |-> NoChangesFound]

DocInit ==
    \E old \in DocItems({DocOldVariant}), new \in DocItems(DocNewVariants),
       options \in DocOptions :
        docCall = [NoDocCall EXCEPT !.old = old, !.new = new, !.options = options]

\* diff := types.CompareProjectStates(oldState, newState)
DocCompareCall ==
    /\ docCall.pc = "ready"
    /\ \E d \in CompareProjectStates(docCall.old, docCall.new, clock) :
         docCall' = [docCall EXCEPT !.pc = "compared", !.diff = d]

\* NewTableFormatter(opts...).Format(diff)
TableFormatCall ==
    /\ docCall.pc = "compared"
    /\ docCall' = [docCall EXCEPT !.pc = "formatted", !.formatter = "table",
                     !.out = TableFormat(docCall.diff, docCall.options)]

\* NewPlainTableFormatter(opts...).Format(diff)
PlainTableFormatCall ==
    /\ docCall.pc = "compared"
    /\ docCall' = [docCall EXCEPT !.pc = "formatted", !.formatter = "plain-table",
                     !.out = PlainTableFormat(docCall.diff, docCall.options)]

--------------------------------------------------------------------------
(* ProjectState.CompareTo (pkg/types/project_state.go) and the filter and  *)
(* compare steps of runDiff (cmd/diff.go).  The states of pHeap are        *)
(* written as FilterState reads them, with strings as character sequences; *)
(* the comparisons read the same items with each string as a TLA+ string.  *)

FirstWithID(items, id) ==
    items[CHOOSE n \in DOMAIN items :
            /\ items[n].ID = id
            /\ \A m \in 1..(n - 1) : items[m].ID # id]

\* The old items for which the inner loop finds an item of the same ID
Matched(p, other) == SelectSeq(p, LAMBDA oldItem : oldItem.ID \in IDsOf(other))

\* The nested loop panics when one of its comparisons does.
ProjectCompareToPanics(p, other) ==
    \E n \in DOMAIN Matched(p, other) :
      ComparePanics(Matched(p, other)[n],
                    FirstWithID(other, Matched(p, other)[n].ID))

\* What the comparisons of the first loop can return at time `now`: for
\* each matched old item, its ItemDiff against the first new item of its ID
ItemDiffsOf(p, other, now) ==
    LET matched == Matched(p, other)
        results == [n \in DOMAIN matched |->
                      ItemCompareToResults(matched[n],
                                           FirstWithID(other, matched[n].ID), now)]
    IN { f \in [DOMAIN matched -> UNION {results[n] : n \in DOMAIN matched}] :
           \A n \in DOMAIN matched : f[n] \in results[n] }

\* p.CompareTo(other) with every new item appended to AddedItems
ProjectCompareTo_AddsEveryItem(p, other, now) ==
    { [set |-> TRUE,
       AddedItems |-> other,
       RemovedItems |-> SelectSeq(p, LAMBDA oldItem : oldItem.ID \notin IDsOf(other)),
       ChangedItems |-> SelectSeq(itemDiffs, HasChanges)] :
        itemDiffs \in ItemDiffsOf(p, other, now) }

\* Every ProjectDiff p.CompareTo(other) can return at time `now`
ProjectCompareTo(p, other, now) ==
    { [set |-> TRUE,
       AddedItems |-> SelectSeq(other, LAMBDA newItem : newItem.ID \notin IDsOf(p)),
       RemovedItems |-> SelectSeq(p, LAMBDA oldItem : oldItem.ID \notin IDsOf(other)),
       ChangedItems |-> SelectSeq(itemDiffs, HasChanges)] :
        itemDiffs \in ItemDiffsOf(p, other, now) }

Chars_Team == <<"T", "e", "a", "m">>
Chars_Priority == <<"P", "r", "i", "o", "r", "i", "t", "y">>
Chars_UI == <<"U", "I">>
Chars_Backend == <<"B", "a", "c", "k", "e", "n", "d">>
Chars_High == <<"H", "i", "g", "h">>

\* The TLA+ string of a character sequence of the pipeline
StringOf(chars) ==
    CASE chars = Chars_Team -> "Team"
      [] chars = Chars_Priority -> "Priority"
      [] chars = Chars_UI -> "UI"
      [] chars = Chars_Backend -> "Backend"
      [] chars = Chars_High -> "High"

\* An item as the comparisons read it
ComparedItem(item) ==
    [ID |-> item.ID, DateSpan |-> item.DateSpan,
     Attributes |->
       [k \in {StringOf(c) : c \in DOMAIN item.Attributes} |->
          LET v == item.Attributes[CHOOSE c \in DOMAIN item.Attributes :
                                     StringOf(c) = k]
          IN IF v.t = "nil" THEN NilValue ELSE Val(v.t, StringOf(v.s))]]

ComparedItems(items) == [n \in DOMAIN items |-> ComparedItem(items[n])]

--------------------------------------------------------------------------
(* The diff pipeline: two loaded snapshots are filtered with the same      *)
(* filter, compared with ProjectState.CompareTo as runDiff does, and with  *)
(* CompareProjectStates as the integration test does.                      *)

PipeFilters ==
    { << >>, Chars_Team \o <<"=">> \o Chars_UI, Chars_Team }

PipeBag(team) == [k \in {Chars_Team} |-> StringValue(team)]

\* The items of the old snapshot: in team UI, in team Backend
PipeOldVariants ==
    { [DateSpan |-> MustNewDateSpan(d20240101, d20240110),
       Attributes |-> PipeBag(Chars_UI)],
      [DateSpan |-> MustNewDateSpan(d20240101, d20240110),
       Attributes |-> PipeBag(Chars_Backend)] }

\* The items of the new snapshot: those, and one in team UI with a
\* priority and later dates
PipeNewVariants ==
    PipeOldVariants
    \cup { [DateSpan |-> MustNewDateSpan(d20240110, d20240229),
            Attributes |-> (Chars_Priority :> StringValue(Chars_High))
                             @@ PipeBag(Chars_UI)] }

PipeIDs == {"1", "2"}

\* The Items of a snapshot: at most MaxPipeItems items in any order; an ID
\* may be listed twice.
PipeItems(variants) ==
    UNION { { [i \in 1..n |-> [ID |-> ids[i], DateSpan |-> v[i].DateSpan,
                               Attributes |-> v[i].Attributes]] :
                ids \in [1..n -> PipeIDs], v \in [1..n -> variants] } :
            n \in 0..MaxPipeItems }

PipeState(filename, items) ==
    [Filename |-> filename, Timestamp |-> 738885, ProjectNumber |-> 123,
     ProjectID |-> "PVT_123", Organization |-> "test-org", Items |-> items]

From == 1
To == 2

NoPipeCall ==
    [pc |-> "loaded", filter |-> << >>, from |-> From, to |-> To,
     err |-> ErrNil, diff |-> NoDiff, mapDiff |-> NoDiff]

PipeInit ==
    /\ \E old \in PipeItems(PipeOldVariants), new \in PipeItems(PipeNewVariants) :
         pHeap = <<PipeState("from.json", old), PipeState("to.json", new)>>
    /\ \E filter \in PipeFilters : pCall = [NoPipeCall EXCEPT !.filter = filter]

\* runDiff: fromState, err = fromState.FilterState(filter), then the same
\* for toState, when a filter is given
ApplyFilterCall ==
    /\ pCall.pc = "loaded"
    /\ IF pCall.filter = << >>
       THEN /\ pCall' = [pCall EXCEPT !.pc = "filtered"]
            /\ pHeap' = pHeap
       ELSE LET r1 == FilterState(pHeap, pCall.from, pCall.filter)
                r2 == FilterState(r1.heap, pCall.to, pCall.filter)
            IN IF r1.err # ErrNil
               THEN /\ pCall' = [pCall EXCEPT !.pc = "failed", !.err = r1.err]
                    /\ pHeap' = r1.heap
               ELSE IF r2.err # ErrNil
               THEN /\ pCall' = [pCall EXCEPT !.pc = "failed", !.err = r2.err,
                                              !.from = r1.ptr]
                    /\ pHeap' = r2.heap
               ELSE /\ pCall' = [pCall EXCEPT !.pc = "filtered",
                                              !.from = r1.ptr, !.to = r2.ptr]
                    /\ pHeap' = r2.heap

\* runDiff: diff := fromState.CompareTo(toState)
ProjectCompareToCall ==
    /\ pCall.pc = "filtered"
    /\ LET p == ComparedItems(pHeap[pCall.from].Items)
           other == ComparedItems(pHeap[pCall.to].Items)
       IN IF ProjectCompareToPanics(p, other)
          THEN pCall' = [pCall EXCEPT !.pc = "panicked"]
          ELSE \E d \in ProjectCompareTo(p, other, clock) :
                 pCall' = [pCall EXCEPT !.pc = "compared", !.diff = d]
    /\ pHeap' = pHeap

\* diff := CompareProjectStates(oldFiltered, newFiltered)
PipeCompareProjectStatesCall ==
    /\ pCall.pc = "compared"
    /\ LET old == ComparedItems(pHeap[pCall.from].Items)
           new == ComparedItems(pHeap[pCall.to].Items)
       IN IF ProjectComparePanics(old, new)
          THEN pCall' = [pCall EXCEPT !.pc = "panicked"]
          ELSE \E d \in CompareProjectStates(old, new, clock) :
                 pCall' = [pCall EXCEPT !.pc = "done", !.mapDiff = d]
    /\ pHeap' = pHeap

--------------------------------------------------------------------------
(* Store.FindClosestState (pkg/storage/storage.go) after SaveState calls.   *)
(* Times are whole days since 0001-01-01, as in the rest of the model; a   *)
(* state file is named by the time of its state.                            *)

\* The largest and the smallest time.Duration: every difference of whole
\* days that a Duration holds lies strictly between the two.
MaxDuration == MaxDurationDays + 1
MinDuration == -(MaxDurationDays + 1)

\* t.Sub(u) as a Duration: saturates at the largest and the smallest Duration
Sub(t, u) ==
    IF t - u > MaxDurationDays THEN MaxDuration
    ELSE IF t - u < -MaxDurationDays THEN MinDuration
    ELSE t - u

\* -d on a Duration (an int64): the smallest Duration is its own negation
NegDuration(d) == IF d = MinDuration THEN MinDuration ELSE -d

\* closestFile == ""
NoFile == [project |-> 0, unix |-> 0]

\* ioutil.ReadDir(projectDir), the files ending in ".json"
ProjectDir(files, projectNumber) == {f \in files : f.project = projectNumber}

\* sort.Slice(stateFiles, ... extractTimestamp(i).Before(extractTimestamp(j)))
SortByTimestamp(files) ==
    CHOOSE seq \in [1..Cardinality(files) -> files] :
        \A i, j \in 1..Cardinality(files) : i < j => seq[i].unix < seq[j].unix

\* The loop over the sorted files, from the n-th file on
RECURSIVE ClosestFrom(_, _, _, _, _)
ClosestFrom(stateFiles, n, timestamp, closestFile, minDiff) ==
    IF n > Len(stateFiles) THEN closestFile
    ELSE LET file == stateFiles[n]
             d == Sub(timestamp, file.unix)
             absDiff == IF d < 0 THEN NegDuration(d) ELSE d
         IN IF closestFile = NoFile \/ absDiff < minDiff
            THEN ClosestFrom(stateFiles, n + 1, timestamp, file, absDiff)
            ELSE ClosestFrom(stateFiles, n + 1, timestamp, closestFile, minDiff)

FindClosestState(files, projectNumber, timestamp) ==
    LET stateFiles == SortByTimestamp(ProjectDir(files, projectNumber))
    IN IF stateFiles = << >>
       THEN [err |-> TRUE, file |-> NoFile]
       ELSE [err |-> FALSE,
             file |-> ClosestFrom(stateFiles, 1, timestamp, NoFile, 0)]

\* How many SaveState calls one behaviour makes
MaxSaves == 3

Day0 == ParseDate(d20240101).t

\* The times of the states saved: 2024-01-01, ten days later, and a time
\* more than a Duration after both
SaveTimes == {Day0, Day0 + 10, Day0 + MaxDurationDays + 20}

\* The times asked for: 0001-01-01, before, at, between and after the first
\* two states, and times more than a Duration after them
FindTimes ==
    {0, Day0 - 5, Day0, Day0 + 3, Day0 + 5, Day0 + 15,
     Day0 + MaxDurationDays + 5, Day0 + MaxDurationDays + 30}

ClosestProjects == {123, 456}

ClosestStates ==
    { [Filename |-> "", Timestamp |-> ts, ProjectNumber |-> number,
       ProjectID |-> "PVT_123", Organization |-> "test-org",
       Items |-> << [ID |-> "1", DateSpan |-> ZeroDateSpan,
                     Attributes |-> [k \in {"Title"} |-> Val("string", "Task")]] >>] :
        ts \in SaveTimes, number \in ClosestProjects \cup {0} }

NoClosestCall ==
    [pc |-> "ready", saves |-> 0, project |-> 0, timestamp |-> 0, file |-> NoFile]

ClosestInit ==
    /\ disk = << >>
    /\ sCall = [NoStoreCall EXCEPT !.pc = "idle"]
    /\ fcCall = NoClosestCall

\* store.SaveState(state), one call of a sequence
SaveAnotherStateCall(state) ==
    /\ fcCall.pc = "ready"
    /\ fcCall.saves < MaxSaves
    /\ fcCall' = [fcCall EXCEPT !.saves = @ + 1]
    /\ disk' = IF ~ValidState(state) THEN disk
               ELSE [f \in DOMAIN disk \cup {StateFile(state)} |->
                       IF f = StateFile(state) THEN MarshalState(state)
                       ELSE disk[f]]
    /\ sCall' = sCall

\* filename, err := store.FindClosestState(projectNumber, timestamp)
FindClosestStateCall(projectNumber, timestamp) ==
    /\ fcCall.pc = "ready"
    /\ LET r == FindClosestState(DOMAIN disk, projectNumber, timestamp)
       IN fcCall' = [fcCall EXCEPT !.pc = IF r.err THEN "error" ELSE "found",
                                   !.project = projectNumber,
                                   !.timestamp = timestamp,
                                   !.file = r.file]
    /\ UNCHANGED storeVars

--------------------------------------------------------------------------
(* ParseHumanRange and parseRelativeDuration (pkg/format/markdown.go).      *)
(* A range string is a sequence of characters; a time is a number of       *)
(* minutes since 0001-01-01 00:00 UTC and a duration a number of minutes.  *)

MinutesPerDay == 24 * 60

IsSpace(c) == c \in {" ", "\t", "\n"}

\* strings.HasPrefix(s, prefix)
HasPrefix(s, prefix) ==
    Len(s) >= Len(prefix) /\ SubSeq(s, 1, Len(prefix)) = prefix

\* strings.TrimPrefix(s, prefix)
TrimPrefix(s, prefix) ==
    IF HasPrefix(s, prefix) THEN SubSeq(s, Len(prefix) + 1, Len(s)) ELSE s

\* strings.TrimSuffix(s, suffix) for a one-character suffix
TrimSuffix(s, suffix) ==
    IF Len(s) > 0 /\ s[Len(s)] = suffix THEN SubSeq(s, 1, Len(s) - 1) ELSE s

\* strings.TrimSpace(s)
RECURSIVE TrimSpace(_)
TrimSpace(s) ==
    IF s = << >> THEN s
    ELSE IF IsSpace(s[1]) THEN TrimSpace(Tail(s))
    ELSE IF IsSpace(s[Len(s)]) THEN TrimSpace(SubSeq(s, 1, Len(s) - 1))
    ELSE s

\* strings.Fields(s): the maximal runs of characters that are not white space
RECURSIVE Fields(_)
Fields(s) ==
    IF s = << >> THEN << >>
    ELSE IF IsSpace(s[1]) THEN Fields(Tail(s))
    ELSE LET n == IF \E i \in DOMAIN s : IsSpace(s[i])
                  THEN (CHOOSE i \in DOMAIN s :
                          IsSpace(s[i]) /\ \A j \in 1..(i - 1) : ~IsSpace(s[j])) - 1
                  ELSE Len(s)
         IN <<SubSeq(s, 1, n)>> \o Fields(SubSeq(s, n + 1, Len(s)))

\* strings.Split(s, sep) for a one-character sep
RECURSIVE Split(_, _)
Split(s, sep) ==
    LET i == IndexOf(s, sep)
    IN IF i = 0 THEN <<s>>
       ELSE <<SubSeq(s, 1, i - 1)>> \o Split(SubSeq(s, i + 1, Len(s)), sep)

UpperCase == <<"D", "H", "L", "M", "W">>
LowerCase == <<"d", "h", "l", "m", "w">>

\* strings.ToLower(s), on the letters the range strings hold in upper case
ToLower(s) ==
    [i \in DOMAIN s |->
        IF \E n \in DOMAIN UpperCase : UpperCase[n] = s[i]
        THEN LowerCase[CHOOSE n \in DOMAIN UpperCase : UpperCase[n] = s[i]]
        ELSE s[i]]

RECURSIVE DecimalValue(_)
DecimalValue(s) ==
    IF s = << >> THEN 0
    ELSE DecimalValue(SubSeq(s, 1, Len(s) - 1)) * 10 + DigitVal(s[Len(s)])

\* strconv.ParseFloat(s, 64) on the amounts of the range strings: a run of
\* decimal digits is its value, the empty string and a word are errors
ParseFloat(s) ==
    IF s # << >> /\ \A i \in DOMAIN s : s[i] \in Digits
    THEN [ok |-> TRUE, value |-> DecimalValue(s)]
    ELSE [ok |-> FALSE, value |-> 0]

WordLast == <<"l", "a", "s", "t", " ">>
WordMinute == <<"m", "i", "n", "u", "t", "e">>
WordHour == <<"h", "o", "u", "r">>

\* parseRelativeDuration(s), in minutes
parseRelativeDuration(s) ==
    LET parts == Fields(s)
    IN IF Len(parts) # 2 THEN [ok |-> FALSE, duration |-> 0]
       ELSE LET amount == ParseFloat(parts[1])
                unit == TrimSuffix(ToLower(parts[2]), "s")
            IN IF ~amount.ok THEN [ok |-> FALSE, duration |-> 0]
               ELSE IF unit = WordMinute
                    THEN [ok |-> TRUE, duration |-> amount.value]
               ELSE IF unit = WordHour
                    THEN [ok |-> TRUE, duration |-> amount.value * 60]
               ELSE IF unit = WordDay
                    THEN [ok |-> TRUE, duration |-> amount.value * 24 * 60]
               ELSE IF unit = WordWeek
                    THEN [ok |-> TRUE, duration |-> amount.value * 7 * 24 * 60]
               ELSE [ok |-> FALSE, duration |-> 0]

NoRange == [ok |-> FALSE, from |-> 0, to |-> 0]

\* ParseHumanRange(timeRange) when time.Now() reads now
ParseHumanRange(timeRange, now) ==
    IF HasPrefix(timeRange, WordLast)
    THEN LET d == parseRelativeDuration(TrimPrefix(timeRange, WordLast))
         IN IF ~d.ok THEN NoRange
            ELSE [ok |-> TRUE, from |-> now - d.duration, to |-> now]
    ELSE LET parts == Split(timeRange, "→")
         IN IF Len(parts) # 2 THEN NoRange
            ELSE LET from == ParseDate(TrimSpace(parts[1]))
                     to == ParseDate(TrimSpace(parts[2]))
                 IN IF ~from.ok \/ ~to.ok \/ to.t < from.t THEN NoRange
                    ELSE [ok |-> TRUE, from |-> from.t * MinutesPerDay,
                          to |-> to.t * MinutesPerDay]

\* The --range values of the help text and of the README
Range_last30minutes == WordLast \o <<"3", "0", " ">> \o WordMinute \o <<"s">>
Range_last2hours == WordLast \o <<"2", " ">> \o WordHour \o <<"s">>
Range_last1day == WordLast \o <<"1", " ">> \o WordDay
Range_last1week == WordLast \o <<"1", " ">> \o WordWeek
Range_last1month == WordLast \o <<"1", " ">> \o WordMonth
Range_lastweek == WordLast \o WordWeek
Range_1day == <<"1", " ">> \o WordDay

DocumentedRanges ==
    {Range_last30minutes, Range_last2hours, Range_last1day, Range_last1week,
     Range_last1month, Range_lastweek, Range_1day}

\* Range strings built from a prefix, an amount, a separator and a unit, and
\* ranges of two dates
RelativeRanges ==
    { prefix \o amount \o gap \o unit :
        prefix \in {WordLast, << >>},
        amount \in {<<"1">>, <<"1", "2">>, <<"a", "b", "c">>, << >>},
        gap \in {<<" ">>, <<" ", " ">>, << >>},
        unit \in {WordMinute, WordHour \o <<"s">>, <<"D">> \o Tail(WordDay),
                  WordWeek \o <<"s">>, WordMonth,
                  <<"d", "e", "c", "a", "d", "e", "s">>, << >>} }

DateRanges ==
    { from \o gap \o <<"→">> \o gap \o to :
        from \in {d20240101, d20240110},
        to \in {d20240101, d20240110, <<"i", "n", "v", "a", "l", "i", "d">>},
        gap \in {<<" ">>, << >>} }
      \cup {d20240101 \o <<" ", "t", "o", " ">> \o d20240110}

RangeStrings == DocumentedRanges \cup RelativeRanges \cup DateRanges

NoRangeCall == [pc |-> "ready", timeRange |-> << >>, from |-> 0, to |-> 0]

RangeInit ==
    /\ clock = 0
    /\ \E timeRange \in RangeStrings :
          hrCall = [NoRangeCall EXCEPT !.timeRange = timeRange]

\* from, to, err := format.ParseHumanRange(timeRange)
ParseHumanRangeCall ==
    /\ hrCall.pc = "ready"
    /\ LET r == ParseHumanRange(hrCall.timeRange, Day0 * MinutesPerDay + clock)
       IN hrCall' = [hrCall EXCEPT !.pc = IF r.ok THEN "returned" ELSE "failed",
                                   !.from = r.from, !.to = r.to]
    /\ clock' = clock

--------------------------------------------------------------------------
(* formatTimelineDetails on a DateSpanChange: one that Item.CompareTo made  *)
(* from the spans of two items, or one built by hand as the tests do.      *)

d00010101 == Str(<<"0","0","0","1">>, <<"0","1">>, <<"0","1">>)

\* An item without dates, spans within 2024, and spans that begin with the
\* first calendar date
TimelineSpans ==
    ItemSpans \cup { MustNewDateSpan(d00010101, d20240101),
                     MustNewDateSpan(d00010101, d20240110) }

TimelineDeltas == {-14, 0, 14, 30}

HandBuiltChanges ==
    { [nil |-> FALSE, StartDaysDelta |-> s, EndDaysDelta |-> e, DurationDelta |-> d] :
        s \in TimelineDeltas, e \in TimelineDeltas, d \in TimelineDeltas }

TimelineItem(ds) ==
    [ID |-> "1", DateSpan |-> ds,
     Attributes |-> [k \in {"Title"} |-> Val("string", "Task")]]

NoTimelineCall ==
    [pc |-> "ready", before |-> ZeroDateSpan, after |-> ZeroDateSpan,
     change |-> NoDateChange, text |-> << >>]

TimelineInit ==
    \/ \E ds, other \in TimelineSpans :
          tdCall = [NoTimelineCall EXCEPT !.before = ds, !.after = other]
    \/ \E change \in HandBuiltChanges :
          tdCall = [NoTimelineCall EXCEPT !.pc = "built", !.change = change]

\* diff := before.CompareTo(after); diff.DateChange
TimelineCompareCall ==
    /\ tdCall.pc = "ready"
    /\ \E d \in ItemCompareToResults(TimelineItem(tdCall.before),
                                     TimelineItem(tdCall.after), clock) :
          tdCall' = [tdCall EXCEPT !.pc = "compared", !.change = d.DateChange]

\* formatTimelineDetails(diff.DateChange, before, after) for a DateChange
\* that is not nil
FormatTimelineDetailsCall ==
    /\ tdCall.pc \in {"compared", "built"}
    /\ ~tdCall.change.nil
    /\ tdCall' = [tdCall EXCEPT
                    !.pc = IF tdCall.pc = "built" THEN "formatted"
                           ELSE "compared and formatted",
                    !.text = formatTimelineDetails(tdCall.change)]

--------------------------------------------------------------------------
(* Client.FetchProjectState (pkg/github/client.go): the conversion of one  *)
(* item node of the GraphQL answer into a types.Item.                       *)

\* An item node has at most MaxFieldValues field values
MaxFieldValues == 2

\* fieldValue.TypeName
TextValue == "ProjectV2ItemFieldTextValue"
DateValue == "ProjectV2ItemFieldDateValue"

NotADate == <<"s", "o", "o", "n">>

\* The field values of a node: dates under three field names, one that does
\* not parse, a text field and the Title text field
FieldValueNodes ==
    { [TypeName |-> DateValue, Name |-> name, Value |-> date] :
        name \in {"Start", "End", "Due"},
        date \in {d20240101, d20240110, NotADate} }
      \cup { [TypeName |-> TextValue, Name |-> "Status", Value |-> "Todo"],
             [TypeName |-> TextValue, Name |-> "Title", Value |-> "Other"] }

\* The --start-field and --end-field of the capture
FieldConfigs ==
    { [startField |-> "Start", endField |-> "End"],
      [startField |-> "Due", endField |-> "End"] }

\* attrs with attrs[name] = value
SetAttribute(attrs, name, value) ==
    [k \in DOMAIN attrs \cup {name} |-> IF k = name THEN value ELSE attrs[k]]

\* One pass of the loop over item.FieldValues.Nodes
ProcessFieldValue(projectItem, fieldValue, startField, endField) ==
    IF fieldValue.TypeName = TextValue
    THEN IF fieldValue.Name = "Title" THEN projectItem
         ELSE [projectItem EXCEPT !.Attributes =
                 SetAttribute(@, fieldValue.Name, Val("string", fieldValue.Value))]
    ELSE IF fieldValue.Name = startField \/ fieldValue.Name = endField
         THEN LET date == ParseDate(fieldValue.Value)
              IN IF ~date.ok THEN projectItem
                 ELSE IF fieldValue.Name = startField
                      THEN [projectItem EXCEPT !.DateSpan.Start = date.t]
                      ELSE [projectItem EXCEPT !.DateSpan.End = date.t]
         ELSE [projectItem EXCEPT !.Attributes =
                 SetAttribute(@, fieldValue.Name, Val("string", fieldValue.Value))]

RECURSIVE ProcessFieldValues(_, _, _, _)
ProcessFieldValues(projectItem, nodes, startField, endField) ==
    IF nodes = << >> THEN projectItem
    ELSE ProcessFieldValues(
            ProcessFieldValue(projectItem, Head(nodes), startField, endField),
            Tail(nodes), startField, endField)

\* The types.Item appended to state.Items for a node of an issue
FetchedItem(id, nodes, startField, endField) ==
    ProcessFieldValues(
        [ID |-> id, DateSpan |-> ZeroDateSpan,
         Attributes |-> [k \in {"Title", "created_at", "updated_at"} |->
                           IF k = "Title" THEN Val("string", "Task") ELSE TimeValue]],
        nodes, startField, endField)

NoFetchCall ==
    [pc |-> "ready", config |-> [startField |-> "", endField |-> ""],
     nodes |-> << >>,
     item |-> [ID |-> "", DateSpan |-> ZeroDateSpan, Attributes |-> << >>]]

FetchInit ==
    \E config \in FieldConfigs, n \in 0..MaxFieldValues :
        \E nodes \in [1..n -> FieldValueNodes] :
            fpCall = [NoFetchCall EXCEPT !.config = config, !.nodes = nodes]

\* state, err := client.FetchProjectState(number, org, startField, endField),
\* for a project of one item
FetchProjectStateCall ==
    /\ fpCall.pc = "ready"
    /\ fpCall' = [fpCall EXCEPT
                    !.pc = "fetched",
                    !.item = FetchedItem("1", fpCall.nodes,
                                         fpCall.config.startField,
                                         fpCall.config.endField)]


--------------------------------------------------------------------------
(* Specifications *)

\* The variables of a machine that is not running keep these values.
DateIdle == DateInit
ItemIdle ==
    /\ before = NoItemDiff.Before
    /\ after = NoItemDiff.After
    /\ itemDiff = NoItemDiff
    /\ itemPc = "idle"
ProjectIdle ==
    /\ oldState = << >>
    /\ newState = << >>
    /\ diff = NoDiff
    /\ prevDiff = NoDiff
    /\ pc = "idle"

FilterIdle ==
    /\ fHeap = << >>
    /\ fCall = [NoFilterCall EXCEPT !.pc = "idle"]
FmtIdle ==
    /\ lvCall = [NoLevelCall EXCEPT !.pc = "idle"]
    /\ hCall = [NoDurationCall EXCEPT !.pc = "idle"]
StoreIdle ==
    /\ disk = << >>
    /\ sCall = [NoStoreCall EXCEPT !.pc = "idle"]
DocIdle == docCall = [NoDocCall EXCEPT !.pc = "idle"]
PipeIdle ==
    /\ pHeap = << >>
    /\ pCall = [NoPipeCall EXCEPT !.pc = "idle"]
ClosestIdle == fcCall = [NoClosestCall EXCEPT !.pc = "idle"]
RangeIdle == hrCall = [NoRangeCall EXCEPT !.pc = "idle"]
FetchIdle == fpCall = [NoFetchCall EXCEPT !.pc = "idle"]
TimelineIdle == tdCall = [NoTimelineCall EXCEPT !.pc = "idle"]
LateIdle == ClosestIdle /\ RangeIdle /\ FetchIdle /\ TimelineIdle
MoreIdle == FilterIdle /\ FmtIdle /\ StoreIdle /\ DocIdle /\ PipeIdle /\ LateIdle

\* CompareProjectStates on two snapshots
Init == ProjectInit /\ ItemIdle /\ DateIdle /\ MoreIdle /\ clock = 0
Next ==
    \/ CompareProjectStatesCall /\ UNCHANGED <<dateVars, itemVars, clock, moreVars>>
    \/ Tick /\ UNCHANGED <<dateVars, itemVars, projVars, moreVars>>
Spec == Init /\ [][Next]_vars

\* Item.CompareTo on two items
InitItem == ItemInit /\ ProjectIdle /\ DateIdle /\ MoreIdle /\ clock = 0
NextItem ==
    \/ ItemCompareToCall /\ UNCHANGED <<dateVars, projVars, clock, moreVars>>
    \/ Tick /\ UNCHANGED <<dateVars, itemVars, projVars, moreVars>>
SpecItem == InitItem /\ [][NextItem]_vars

\* NewDateSpan, DurationDays and DateSpan.CompareTo
InitDate == DateInit /\ ItemIdle /\ ProjectIdle /\ MoreIdle /\ clock = 0
NextDate ==
    \/ \E slot \in Slots, start, end \in DateStrings :
          NewDateSpanCall(slot, start, end) /\ UNCHANGED <<itemVars, projVars, clock, moreVars>>
    \/ \E slot \in Slots :
          DurationDaysCall(slot) /\ UNCHANGED <<itemVars, projVars, clock, moreVars>>
    \/ DateSpanCompareToCall /\ UNCHANGED <<itemVars, projVars, clock, moreVars>>
SpecDate == InitDate /\ [][NextDate]_vars

\* The variables of the three machines above
coreVars == <<dateVars, itemVars, projVars>>
CoreIdle == DateIdle /\ ItemIdle /\ ProjectIdle /\ clock = 0

\* ProjectState.FilterState on a state and a filter string
InitFilter == FilterInit /\ FmtIdle /\ StoreIdle /\ DocIdle /\ PipeIdle /\ LateIdle /\ CoreIdle
NextFilter ==
    \E filter \in FilterStrings :
        FilterStateCall(filter) /\ UNCHANGED <<coreVars, clock, fmtVars, storeVars, docVars, pipeVars, lateVars>>
SpecFilter == InitFilter /\ [][NextFilter]_vars

\* calculateDelayLevel and calculateTimelineDelayLevel on day deltas and
\* thresholds
InitDelay ==
    /\ DelayInit
    /\ hCall = [NoDurationCall EXCEPT !.pc = "idle"]
    /\ FilterIdle /\ StoreIdle /\ DocIdle /\ PipeIdle /\ LateIdle /\ CoreIdle
NextDelay ==
    \/ CalculateDelayLevelCall /\ UNCHANGED <<coreVars, clock, filterVars, storeVars, docVars, pipeVars, lateVars, hCall>>
    \/ CalculateTimelineDelayLevelCall
         /\ UNCHANGED <<coreVars, clock, filterVars, storeVars, docVars, pipeVars, lateVars, hCall>>
SpecDelay == InitDelay /\ [][NextDelay]_vars

\* formatHumanDuration on a number of days
InitDuration ==
    /\ DurationInit
    /\ lvCall = [NoLevelCall EXCEPT !.pc = "idle"]
    /\ FilterIdle /\ StoreIdle /\ DocIdle /\ PipeIdle /\ LateIdle /\ CoreIdle
NextDuration ==
    \E days \in 0..MaxDays :
        FormatHumanDurationCall(days) /\ UNCHANGED <<coreVars, clock, filterVars, storeVars, docVars, pipeVars, lateVars, lvCall>>
SpecDuration == InitDuration /\ [][NextDuration]_vars

\* SaveState, LoadStateFile and the comparison of what was saved with what
\* was loaded
InitStore == StoreInit /\ FilterIdle /\ FmtIdle /\ DocIdle /\ PipeIdle /\ LateIdle /\ CoreIdle
NextStore ==
    \/ SaveStateCall /\ UNCHANGED <<coreVars, clock, filterVars, fmtVars, docVars, pipeVars, lateVars>>
    \/ LoadStateFileCall /\ UNCHANGED <<coreVars, clock, filterVars, fmtVars, docVars, pipeVars, lateVars>>
    \/ CompareLoadedCall /\ UNCHANGED <<coreVars, clock, filterVars, fmtVars, docVars, pipeVars, lateVars>>
SpecStore == InitStore /\ [][NextStore]_vars

\* A diff is computed and formatted by one of the table formatters
InitDoc == DocInit /\ FilterIdle /\ FmtIdle /\ StoreIdle /\ PipeIdle /\ LateIdle /\ CoreIdle
NextDoc ==
    \/ DocCompareCall /\ UNCHANGED <<coreVars, clock, filterVars, fmtVars, storeVars, pipeVars, lateVars>>
    \/ TableFormatCall /\ UNCHANGED <<coreVars, clock, filterVars, fmtVars, storeVars, pipeVars, lateVars>>
    \/ PlainTableFormatCall /\ UNCHANGED <<coreVars, clock, filterVars, fmtVars, storeVars, pipeVars, lateVars>>
SpecDoc == InitDoc /\ [][NextDoc]_vars

\* Two snapshots are filtered and compared
otherVars == <<coreVars, clock, filterVars, fmtVars, storeVars, docVars, lateVars>>
InitPipe == PipeInit /\ FilterIdle /\ FmtIdle /\ StoreIdle /\ DocIdle /\ LateIdle /\ CoreIdle
NextPipe ==
    \/ ApplyFilterCall /\ UNCHANGED otherVars
    \/ ProjectCompareToCall /\ UNCHANGED otherVars
    \/ PipeCompareProjectStatesCall /\ UNCHANGED otherVars
SpecPipe == InitPipe /\ [][NextPipe]_vars

\* SaveState calls followed by FindClosestState
closestFrame == <<coreVars, clock, filterVars, fmtVars, docVars, pipeVars, hrCall, fpCall, tdCall>>
InitClosest ==
    /\ ClosestInit
    /\ RangeIdle /\ FetchIdle /\ TimelineIdle
    /\ FilterIdle /\ FmtIdle /\ DocIdle /\ PipeIdle /\ CoreIdle
NextClosest ==
    \/ \E state \in ClosestStates :
          SaveAnotherStateCall(state) /\ UNCHANGED closestFrame
    \/ \E projectNumber \in ClosestProjects \cup {789}, timestamp \in FindTimes :
          FindClosestStateCall(projectNumber, timestamp) /\ UNCHANGED closestFrame
SpecClosest == InitClosest /\ [][NextClosest]_vars

\* ParseHumanRange on a range string, at some reading of the clock
rangeFrame == <<coreVars, filterVars, fmtVars, storeVars, docVars, pipeVars, fcCall, fpCall, tdCall>>
InitRange ==
    /\ RangeInit
    /\ ClosestIdle /\ FetchIdle /\ TimelineIdle
    /\ FilterIdle /\ FmtIdle /\ StoreIdle /\ DocIdle /\ PipeIdle
    /\ DateIdle /\ ItemIdle /\ ProjectIdle
NextRange ==
    \/ ParseHumanRangeCall /\ UNCHANGED rangeFrame
    \/ Tick /\ UNCHANGED <<rangeFrame, hrCall>>
SpecRange == InitRange /\ [][NextRange]_vars

\* formatTimelineDetails on the DateChange of an item comparison or on a
\* DateSpanChange built by hand
timelineFrame == <<coreVars, clock, filterVars, fmtVars, storeVars, docVars, pipeVars, fcCall, hrCall, fpCall>>
InitTimeline ==
    /\ TimelineInit
    /\ ClosestIdle /\ RangeIdle /\ FetchIdle
    /\ FilterIdle /\ FmtIdle /\ StoreIdle /\ DocIdle /\ PipeIdle /\ CoreIdle
NextTimeline ==
    \/ TimelineCompareCall /\ UNCHANGED timelineFrame
    \/ FormatTimelineDetailsCall /\ UNCHANGED timelineFrame
SpecTimeline == InitTimeline /\ [][NextTimeline]_vars

\* FetchProjectState on a project of one item
fetchFrame == <<coreVars, clock, filterVars, fmtVars, storeVars, docVars, pipeVars, fcCall, hrCall, tdCall>>
InitFetch ==
    /\ FetchInit
    /\ ClosestIdle /\ RangeIdle /\ TimelineIdle
    /\ FilterIdle /\ FmtIdle /\ StoreIdle /\ DocIdle /\ PipeIdle /\ CoreIdle
NextFetch == FetchProjectStateCall /\ UNCHANGED fetchFrame
SpecFetch == InitFetch /\ [][NextFetch]_vars

--------------------------------------------------------------------------
(* Properties of CompareProjectStates, checked under Spec *)

\* How many items of the sequence have the ID
CountID(items, id) == Cardinality({n \in DOMAIN items : items[n].ID = id})

\* How many ItemDiffs of the sequence are about the ID
CountItemID(diffs, id) == Cardinality({n \in DOMAIN diffs : diffs[n].ItemID = id})

\* The sequences s and t hold the same elements, in any order
SameUpToOrder(s, t) ==
    /\ Len(s) = Len(t)
    /\ \E p \in Perms(DOMAIN s) : \A n \in DOMAIN s : s[n] = t[p[n]]

ItemOf(items, id) == items[CHOOSE n \in DOMAIN items : items[n].ID = id]

\* C1: after CompareProjectStates(from, to) has returned, an ID only in
\* `from` is in RemovedItems exactly once (as the item of `from`) and nowhere
\* else, an ID only in `to` is in AddedItems exactly once (as the item of
\* `to`) and nowhere else, and an ID in both is in ChangedItems exactly once
\* when the two items differ in their DateSpan or in an attribute (the item
\* comparison has changes) and in none of the three sequences otherwise.
C1_DiffPartitionsIDs ==
    pc = "returned" =>
      \A id \in ItemIDSet :
        LET inOld == id \in IDsOf(oldState)
            inNew == id \in IDsOf(newState)
            removed == CountID(diff.RemovedItems, id)
            added == CountID(diff.AddedItems, id)
            changed == CountItemID(diff.ChangedItems, id)
        IN /\ (inOld /\ ~inNew) =>
                /\ removed = 1 /\ added = 0 /\ changed = 0
                /\ \E n \in DOMAIN diff.RemovedItems :
                     diff.RemovedItems[n] = ItemOf(oldState, id)
           /\ (~inOld /\ inNew) =>
                /\ removed = 0 /\ added = 1 /\ changed = 0
                /\ \E n \in DOMAIN diff.AddedItems :
                     diff.AddedItems[n] = ItemOf(newState, id)
           /\ (inOld /\ inNew) =>
                /\ removed = 0 /\ added = 0
                /\ changed = IF \/ ItemOf(oldState, id).DateSpan
                                     # ItemOf(newState, id).DateSpan
                                \/ ItemOf(oldState, id).Attributes
                                     # ItemOf(newState, id).Attributes
                             THEN 1 ELSE 0
           /\ (~inOld /\ ~inNew) => removed = 0 /\ added = 0 /\ changed = 0

\* C1 witness: a comparison returned one removed, one added and one changed
\* item.
C1_Witness ==
    /\ pc = "returned"
    /\ Len(diff.RemovedItems) = 1
    /\ Len(diff.AddedItems) = 1
    /\ Len(diff.ChangedItems) = 1

StripTimestamp(d) == [d EXCEPT !.Timestamp = 0]

StripTimestamps(ds) == [n \in DOMAIN ds |-> StripTimestamp(ds[n])]

\* C2 as claimed: two calls on the same two states return the same added
\* items, removed items and ItemDiffs, every field of each ItemDiff
\* included, up to the order of the three sequences.
C2_SameDiffEveryField ==
    (prevDiff.set /\ diff.set) =>
      /\ SameUpToOrder(prevDiff.AddedItems, diff.AddedItems)
      /\ SameUpToOrder(prevDiff.RemovedItems, diff.RemovedItems)
      /\ SameUpToOrder(prevDiff.ChangedItems, diff.ChangedItems)

\* C2 as amended: two calls on the same two states return the same added
\* items, removed items and ItemDiffs, every field of each ItemDiff but its
\* Timestamp included, up to the order of the three sequences.
C2_SameDiffButTimestamp ==
    (prevDiff.set /\ diff.set) =>
      /\ SameUpToOrder(prevDiff.AddedItems, diff.AddedItems)
      /\ SameUpToOrder(prevDiff.RemovedItems, diff.RemovedItems)
      /\ SameUpToOrder(StripTimestamps(prevDiff.ChangedItems),
                       StripTimestamps(diff.ChangedItems))

\* C2 witness: two calls returned, the second with its removed items in
\* another order than the first.
C2_Witness ==
    /\ prevDiff.set /\ diff.set
    /\ Len(diff.RemovedItems) = 2
    /\ prevDiff.RemovedItems # diff.RemovedItems

--------------------------------------------------------------------------
(* Properties of Item.CompareTo, checked under SpecItem *)

\* The FieldChanges of the returned ItemDiff that are about the key
ChangesFor(key) ==
    {n \in DOMAIN itemDiff.FieldChanges : itemDiff.FieldChanges[n].Field = key}

IsAdded(key) == key \in DOMAIN after.Attributes /\ key \notin DOMAIN before.Attributes

IsDeleted(key) == key \in DOMAIN before.Attributes /\ key \notin DOMAIN after.Attributes

IsModified(key) ==
    /\ key \in DOMAIN before.Attributes \cap DOMAIN after.Attributes
    /\ before.Attributes[key] # after.Attributes[key]

C4_DateChangeIffSpansDiffer ==
    itemPc = "returned" =>
      (~itemDiff.DateChange.nil <=>
         (\/ before.DateSpan.Start # after.DateSpan.Start
          \/ before.DateSpan.End # after.DateSpan.End))

\* C4 witness: CompareTo returned a DateChange for two spans with the same
\* Start and different Ends.
C4_Witness ==
    /\ itemPc = "returned"
    /\ ~itemDiff.DateChange.nil
    /\ itemDiff.DateChange.StartDaysDelta = 0
    /\ itemDiff.DateChange.EndDaysDelta > 0

\* C5: the returned FieldChanges hold exactly one change for each key that
\* was added, modified or deleted and none for any other key; an added key
\* has OldValue nil and NewValue the new value, a modified key the prior and
\* the new value, a deleted key the prior value and NewValue nil.
C5_FieldChangesExact ==
    itemPc = "returned" =>
      /\ \A n \in DOMAIN itemDiff.FieldChanges :
           itemDiff.FieldChanges[n].Field \in FieldNameSet
      /\ \A key \in FieldNameSet :
           /\ Cardinality(ChangesFor(key)) =
                IF IsAdded(key) \/ IsModified(key) \/ IsDeleted(key) THEN 1 ELSE 0
           /\ \A n \in ChangesFor(key) :
                LET c == itemDiff.FieldChanges[n]
                IN /\ IsAdded(key) =>
                        c.OldValue = NilValue /\ c.NewValue = after.Attributes[key]
                   /\ IsModified(key) =>
                        /\ c.OldValue = before.Attributes[key]
                        /\ c.NewValue = after.Attributes[key]
                   /\ IsDeleted(key) =>
                        c.OldValue = before.Attributes[key] /\ c.NewValue = NilValue

\* C5 witness: CompareTo returned with one key added, one modified and
\* one deleted.
C5_Witness ==
    /\ itemPc = "returned"
    /\ \E k1, k2, k3 \in FieldNameSet :
         IsAdded(k1) /\ IsModified(k2) /\ IsDeleted(k3)
    /\ Len(itemDiff.FieldChanges) = 3

\* C6: the returned FieldChanges are in strictly ascending order of Field,
\* so no field name occurs twice.
C6_FieldChangesSorted ==
    itemPc = "returned" =>
      \A m, n \in DOMAIN itemDiff.FieldChanges :
        m < n => FieldRank(itemDiff.FieldChanges[m].Field)
                   < FieldRank(itemDiff.FieldChanges[n].Field)

\* C6 witness: CompareTo returned a deletion ahead of an addition, though
\* its loops append the additions before the deletions.
C6_Witness ==
    /\ itemPc = "returned"
    /\ Len(itemDiff.FieldChanges) >= 2
    /\ IsDeleted(itemDiff.FieldChanges[1].Field)
    /\ IsAdded(itemDiff.FieldChanges[Len(itemDiff.FieldChanges)].Field)

\* C7: CompareTo has no failure path: it returns an ItemDiff for every pair
\* of items, and never aborts on a pair of attribute values.
C7_NoFailurePath ==
    /\ itemPc # "panicked"
    /\ itemPc = "returned" =>
         \A key \in DOMAIN before.Attributes \cap DOMAIN after.Attributes :
           before.Attributes[key].t # after.Attributes[key].t =>
             Cardinality(ChangesFor(key)) = 1

--------------------------------------------------------------------------
(* Properties of DateSpan, checked under SpecDate *)

\* The day number of a valid date string, from the calendar: days since
\* 0001-01-01.
CalendarDay(s) ==
    CASE s = Str(<<"0","0","0","1">>, <<"0","1">>, <<"0","1">>) -> 0
      [] s = Str(<<"2","0","2","4">>, <<"0","1">>, <<"0","1">>) -> 738885
      [] s = Str(<<"2","0","2","4">>, <<"0","1">>, <<"1","0">>) -> 738894
      [] s = Str(<<"2","0","2","4">>, <<"0","2">>, <<"2","9">>) -> 738944

\* C8: a DateSpan built from valid calendar dates with end >= start has
\* DurationDays() = (end - start in whole days) + 1, which is at least 1.
C8_DurationIsInclusiveDayCount ==
    \A slot \in Slots :
      (built[slot].called /\ built[slot].err = ErrNil /\ durationDays[slot].set) =>
        /\ durationDays[slot].days
             = (CalendarDay(built[slot].end) - CalendarDay(built[slot].start)) + 1
        /\ durationDays[slot].days >= 1

\* Two dates further apart than a Duration can hold
Far(t, u) == t - u > MaxDurationDays \/ u - t > MaxDurationDays

C10_NewDateSpan ==
    \A slot \in Slots :
      built[slot].called =>
        LET r == built[slot]
            valid == r.start \in ValidDateStrings /\ r.end \in ValidDateStrings
        IN /\ r.err # ErrNil <=>
                (~valid \/ CalendarDay(r.end) < CalendarDay(r.start))
           /\ r.err # ErrNil => r.ds = ZeroDateSpan
           /\ r.err = ErrNil =>
                /\ r.ds.Start = CalendarDay(r.start)
                /\ r.ds.End = CalendarDay(r.end)

\* C10 witness: one NewDateSpan call succeeded on a single day, another
\* failed because its end is before its start.
C10_Witness ==
    /\ built["a"].called /\ built["a"].err = ErrNil
    /\ built["a"].start = built["a"].end
    /\ built["b"].called /\ built["b"].err = ErrEndBeforeStart

--------------------------------------------------------------------------
(* Properties of ProjectState.FilterState, checked under SpecFilter *)

\* What each attribute value of the machine prints as with %v
PrintedAs(v) ==
    CASE v = StringValue(<<"1">>)      -> <<"1">>
      [] v = StringValue(<<"=", "1">>) -> <<"=", "1">>
      [] v = StringValue(<<"a">>)      -> <<"a">>
      [] v = StringValue(<< >>)        -> << >>
      [] v = FloatValue(1)             -> <<"1">>
      [] v = FilterNil                 -> <<"<", "n", "i", "l", ">">>

\* The items that have the attribute, printing as value, in their order
Selected(items, attribute, value) ==
    SelectSeq(items, LAMBDA item :
                /\ attribute \in DOMAIN item.Attributes
                /\ PrintedAs(item.Attributes[attribute]) = value)

\* The parts of the string before and after its i-th character
Before(s, i) == [j \in 1..(i - 1) |-> s[j]]
After(s, i) == [j \in 1..(Len(s) - i) |-> s[i + j]]

\* How many "=" the string holds
CountEq(s) == Cardinality({i \in DOMAIN s : s[i] = "="})

\* C11: for a filter attribute=value, FilterState returns a new ProjectState
\* whose Items are exactly the input items, in their order, that have the
\* attribute with a value that prints as `value`; items without the
\* attribute are left out without an error; Filename, Timestamp,
\* ProjectNumber, ProjectID and Organization are those of the input.
C11_FilterKeepsMatchingItems ==
    (fCall.pc = "returned" /\ CountEq(fCall.filter) = 1) =>
      /\ fCall.err = ErrNil
      /\ fCall.ptr \in DOMAIN fHeap
      /\ fCall.ptr # Recv
      /\ fHeap[Recv] = fCall.input
      /\ \A i \in DOMAIN fCall.filter :
           fCall.filter[i] = "=" =>
             fHeap[fCall.ptr].Items =
               Selected(fCall.input.Items, Before(fCall.filter, i), After(fCall.filter, i))
      /\ fHeap[fCall.ptr].Filename = fCall.input.Filename
      /\ fHeap[fCall.ptr].Timestamp = fCall.input.Timestamp
      /\ fHeap[fCall.ptr].ProjectNumber = fCall.input.ProjectNumber
      /\ fHeap[fCall.ptr].ProjectID = fCall.input.ProjectID
      /\ fHeap[fCall.ptr].Organization = fCall.input.Organization

\* C11 witness: of an item without the attribute and an item whose number
\* prints as the value, in a state with its metadata set, FilterState kept
\* the second.
C11_Witness ==
    /\ fCall.pc = "returned"
    /\ fCall.filter = <<"a", "=", "1">>
    /\ fCall.input.ProjectNumber = 123
    /\ Len(fCall.input.Items) = 2
    /\ fCall.input.Items[1].Attributes = << >>
    /\ <<"a">> \in DOMAIN fCall.input.Items[2].Attributes
    /\ fCall.input.Items[2].Attributes[<<"a">>] = FloatValue(1)
    /\ fCall.ptr \in DOMAIN fHeap
    /\ Len(fHeap[fCall.ptr].Items) = 1
    /\ fHeap[fCall.ptr].Items[1].ID = "2"

\* C12: a non-empty filter is split at its first "=" only: the attribute is
\* what precedes it and the value all that follows, further "=" included;
\* a non-empty filter without "=" makes FilterState fail and return no
\* state.
C12_SplitOnFirstEquals ==
    (fCall.pc = "returned" /\ fCall.filter # << >>) =>
      /\ fCall.err # ErrNil <=> CountEq(fCall.filter) = 0
      /\ fCall.err # ErrNil => fCall.ptr = NilPtr /\ DOMAIN fHeap = {Recv}
      /\ fCall.err = ErrNil =>
           \A i \in DOMAIN fCall.filter :
             (fCall.filter[i] = "=" /\ CountEq(Before(fCall.filter, i)) = 0) =>
               fHeap[fCall.ptr].Items =
                 Selected(fCall.input.Items, Before(fCall.filter, i), After(fCall.filter, i))

\* C12 witness: the filter a==1 kept an item whose attribute a is "=1".
C12_Witness ==
    /\ fCall.pc = "returned"
    /\ fCall.filter = <<"a", "=", "=", "1">>
    /\ fCall.err = ErrNil
    /\ Len(fHeap[fCall.ptr].Items) = 1
    /\ fHeap[fCall.ptr].Items[1].Attributes[<<"a">>] = StringValue(<<"=", "1">>)

\* C13: with the empty filter FilterState returns the ProjectState it was
\* called on, not a copy, without an error and with every item retained.
C13_EmptyFilterReturnsReceiver ==
    (fCall.pc = "returned" /\ fCall.filter = << >>) =>
      /\ fCall.err = ErrNil
      /\ fCall.ptr = Recv
      /\ DOMAIN fHeap = {Recv}
      /\ fHeap[Recv] = fCall.input

\* C13 witness: FilterState returned for the empty filter on a state of two
\* items.
C13_Witness ==
    /\ fCall.pc = "returned"
    /\ fCall.filter = << >>
    /\ Len(fCall.input.Items) = 2
    /\ fCall.ptr = Recv

--------------------------------------------------------------------------
(* Properties of the delay classification, checked under SpecDelay *)

\* C14: calculateDelayLevel returns Ahead for a negative durationDelta,
\* OnTrack for 0, and for a positive one Extreme if it is >= extreme, else
\* High if >= high, else Moderate if >= moderate, else OnTrack, whatever
\* the order of the thresholds.
C14_DelayLevelLadder ==
    (lvCall.pc = "returned" /\ lvCall.fn = "calculateDelayLevel") =>
      LET d == lvCall.args[2]
          moderate == lvCall.args[3]
          high == lvCall.args[4]
          extreme == lvCall.args[5]
      IN /\ d < 0 => lvCall.level = DelayLevelAhead
         /\ d = 0 => lvCall.level = DelayLevelOnTrack
         /\ (d > 0 /\ d >= extreme) => lvCall.level = DelayLevelExtreme
         /\ (d > 0 /\ d < extreme /\ d >= high) => lvCall.level = DelayLevelHigh
         /\ (d > 0 /\ d < extreme /\ d < high /\ d >= moderate) =>
               lvCall.level = DelayLevelModerate
         /\ (d > 0 /\ d < extreme /\ d < high /\ d < moderate) =>
               lvCall.level = DelayLevelOnTrack

\* C14 witness: calculateDelayLevel returned High under thresholds that are
\* not ascending (high below moderate).
C14_Witness ==
    /\ lvCall.pc = "returned"
    /\ lvCall.fn = "calculateDelayLevel"
    /\ lvCall.args[4] < lvCall.args[3]
    /\ lvCall.args[2] < lvCall.args[3]
    /\ lvCall.level = DelayLevelHigh

--------------------------------------------------------------------------
(* Properties of formatHumanDuration, checked under SpecDuration *)

UnitNames == <<WordYear, WordMonth, WordWeek, WordDay>>

\* The hierarchical decomposition of days: years, months, weeks, days
Decomposition(days) ==
    <<days \div 365, (days % 365) \div 30, ((days % 365) % 30) \div 7,
      ((days % 365) % 30) % 7>>

\* The largest unit of the decomposition that is not zero (days > 0)
LargestUnit(days) ==
    CHOOSE i \in 1..4 :
      /\ Decomposition(days)[i] > 0
      /\ \A j \in 1..(i - 1) : Decomposition(days)[j] = 0

\* A count and its unit in words: "1 week", "2 days"
UnitText(days, i) ==
    Decimal(Decomposition(days)[i]) \o <<" ">> \o UnitNames[i]
      \o (IF Decomposition(days)[i] = 1 THEN << >> ELSE <<"s">>)

\* The text of the units in `shown`, largest first, one space between
RECURSIVE UnitsText(_, _)
UnitsText(days, shown) ==
    IF shown = << >> THEN << >>
    ELSE IF Len(shown) = 1 THEN UnitText(days, shown[1])
    ELSE UnitText(days, shown[1]) \o <<" ">> \o UnitsText(days, Tail(shown))

\* The largest nonzero unit and the next nonzero unit below it
LargestAndNextNonzero(days) ==
    LET first == LargestUnit(days)
        below == {i \in (first + 1)..4 : Decomposition(days)[i] > 0}
    IN IF below = {} THEN <<first>>
       ELSE <<first, CHOOSE i \in below : \A j \in below : i <= j>>

\* The largest nonzero unit and the unit right below it when it is nonzero
LargestAndImmediatelyBelow(days) ==
    LET first == LargestUnit(days)
    IN IF first < 4 /\ Decomposition(days)[first + 1] > 0
       THEN <<first, first + 1>> ELSE <<first>>

\* C16 (as claimed): for days > 0 formatHumanDuration shows the largest
\* nonzero unit and the next-largest nonzero unit below it, whichever
\* that is.
C16_LargestAndNextNonzeroUnit ==
    (hCall.pc = "returned" /\ hCall.days > 0) =>
      hCall.out = UnitsText(hCall.days, LargestAndNextNonzero(hCall.days))

\* C16 (amended): for days > 0 formatHumanDuration shows at most two units:
\* the largest nonzero unit and, only when it is nonzero, the unit
\* immediately below it; every smaller unit is dropped.
C16_LargestAndUnitBelow ==
    (hCall.pc = "returned" /\ hCall.days > 0) =>
      hCall.out = UnitsText(hCall.days, LargestAndImmediatelyBelow(hCall.days))

\* C16 witness: for 1 year, no month and 1 week formatHumanDuration
\* returned "1 year".
C16_Witness ==
    /\ hCall.pc = "returned"
    /\ Decomposition(hCall.days) = <<1, 0, 1, 0>>
    /\ hCall.out = UnitText(hCall.days, 1)

\* The words of a string: its parts between single spaces
RECURSIVE Words(_)
Words(str) ==
    IF IndexOf(str, " ") = 0 THEN <<str>>
    ELSE <<SubSeq(str, 1, IndexOf(str, " ") - 1)>>
           \o Words(SubSeq(str, IndexOf(str, " ") + 1, Len(str)))

--------------------------------------------------------------------------
(* Properties of the storage round trip, checked under SpecStore *)

\* C18: a ProjectState saved with SaveState and loaded with LoadStateFile
\* has the same Items: the same IDs, the same DateSpans, the same attribute
\* keys and values; comparing the state with its reloaded copy reports no
\* added, removed or changed item.
C18_RoundTripKeepsItems ==
    /\ sCall.pc \in {"loaded", "compared"} => sCall.loaded.Items = sCall.state.Items
    /\ sCall.pc = "compared" =>
         /\ sCall.diff.AddedItems = << >>
         /\ sCall.diff.RemovedItems = << >>
         /\ sCall.diff.ChangedItems = << >>

--------------------------------------------------------------------------
(* Properties of the table formatters, checked under SpecDoc *)

\* The rows of the section of that title in a formatter's output
RowsOf(out, title) ==
    IF \E n \in DOMAIN out.Sections : out.Sections[n].Title = title
    THEN out.Sections[CHOOSE n \in DOMAIN out.Sections :
                        out.Sections[n].Title = title].Rows
    ELSE << >>

ColumnsOf(out, title) ==
    IF \E n \in DOMAIN out.Sections : out.Sections[n].Title = title
    THEN out.Sections[CHOOSE n \in DOMAIN out.Sections :
                        out.Sections[n].Title = title].Columns
    ELSE << >>

\* The changed items whose DateChange is not nil, in the diff's order
Dated(changes) == SelectSeq(changes, LAMBDA c : ~c.DateChange.nil)

Bookkeeping == {"created_at", "updated_at"}

\* The field changes of a changed item on fields that are not bookkeeping
Shown(change) ==
    SelectSeq(change.FieldChanges, LAMBDA fc : fc.Field \notin Bookkeeping)

\* The text of a cell that shows the old and the new value of a change
ChangeText(fc) == <<fc.OldValue.v, " → ", fc.NewValue.v>>

\* C20: in both table formatters the other-changes section holds one row for
\* each changed item with a FieldChange on a field other than created_at and
\* updated_at, the row shows the old and the new value of every such
\* FieldChange, and no created_at or updated_at change is shown.
C20_OtherRows ==
    docCall.pc = "formatted" =>
      LET d == docCall.diff
          rows == RowsOf(docCall.out, OtherTitle)
          columns == ColumnsOf(docCall.out, OtherTitle)
          items == SelectSeq(d.ChangedItems, LAMBDA c : Len(Shown(c)) > 0)
      IN /\ Len(rows) = Len(items)
         /\ \A i \in 1..Len(items) :
              /\ rows[i][1] = <<GetTitle(items[i].After)>>
              /\ \A k \in DOMAIN Shown(items[i]) :
                   \E j \in 2..Len(rows[i]) :
                     rows[i][j] = ChangeText(Shown(items[i])[k])
              /\ \A k \in DOMAIN items[i].FieldChanges :
                   items[i].FieldChanges[k].Field \in Bookkeeping =>
                     \A j \in 2..Len(rows[i]) :
                       rows[i][j] # ChangeText(items[i].FieldChanges[k])
         /\ \A j \in DOMAIN columns : columns[j] \notin Bookkeeping

--------------------------------------------------------------------------
(* Further properties of Item.CompareTo, checked under SpecItem *)

DisjointKeys == DOMAIN before.Attributes \cap DOMAIN after.Attributes = {}

\* C21: when before and after share no attribute key, CompareTo returns
\* len(before.Attributes) + len(after.Attributes) field changes: every key
\* of after as an addition (old value nil), every key of before as a
\* deletion (new value nil); the call does not panic.
C21_DisjointKeysAllReported ==
    (itemPc # "ready" /\ DisjointKeys) =>
      /\ itemPc = "returned"
      /\ Len(itemDiff.FieldChanges) =
           Cardinality(DOMAIN before.Attributes)
             + Cardinality(DOMAIN after.Attributes)
      /\ \A key \in DOMAIN after.Attributes :
           \E n \in DOMAIN itemDiff.FieldChanges :
             itemDiff.FieldChanges[n] =
               [Field |-> key, OldValue |-> NilValue,
                NewValue |-> after.Attributes[key]]
      /\ \A key \in DOMAIN before.Attributes :
           \E n \in DOMAIN itemDiff.FieldChanges :
             itemDiff.FieldChanges[n] =
               [Field |-> key, OldValue |-> before.Attributes[key],
                NewValue |-> NilValue]

\* Two keys deleted and one added
C21_Witness ==
    /\ itemPc = "returned"
    /\ DOMAIN before.Attributes = {"Priority", "labels"}
    /\ DOMAIN after.Attributes = {"status"}
    /\ Len(itemDiff.FieldChanges) = 3

--------------------------------------------------------------------------
(* Properties of the diff pipeline, checked under SpecPipe *)

\* The item has the attribute and its string value is the filter's value
PipeMatches(item, filter) ==
    LET i == IndexOf(filter, "=")
    IN /\ Before(filter, i) \in DOMAIN item.Attributes
       /\ item.Attributes[Before(filter, i)].s = After(filter, i)

\* How the diff reports the ID: how often among the added, the removed and
\* the changed items
Reported(d, id) ==
    <<CountID(d.AddedItems, id), CountID(d.RemovedItems, id),
      CountItemID(d.ChangedItems, id)>>

\* What C22 says of a diff of the two filtered snapshots, for every ID the
\* two loaded snapshots each list once
FilteredChangesIn(d) ==
    \A id \in PipeIDs :
      (CountID(pHeap[From].Items, id) = 1 /\ CountID(pHeap[To].Items, id) = 1) =>
        LET old == ItemOf(pHeap[From].Items, id)
            new == ItemOf(pHeap[To].Items, id)
        IN /\ (PipeMatches(old, pCall.filter) /\ ~PipeMatches(new, pCall.filter))
                => Reported(d, id) = <<0, 1, 0>>
           /\ (~PipeMatches(old, pCall.filter) /\ PipeMatches(new, pCall.filter))
                => Reported(d, id) = <<1, 0, 0>>
           /\ (PipeMatches(old, pCall.filter) /\ PipeMatches(new, pCall.filter)
                 /\ old = new)
                => Reported(d, id) = <<0, 0, 0>>

\* C22: when both snapshots are filtered with the same attribute=value
\* filter and then compared (by ProjectState.CompareTo or by
\* CompareProjectStates), an item of both loaded snapshots that matches only
\* in the old one is in RemovedItems, one that matches only in the new one
\* is in AddedItems, neither is in ChangedItems, and one that matches in both
\* and is unchanged is not reported.
C22_FilterThenCompare ==
    (pCall.filter # << >> /\ IndexOf(pCall.filter, "=") # 0) =>
      /\ pCall.pc \in {"compared", "done"} => FilteredChangesIn(pCall.diff)
      /\ pCall.pc = "done" => FilteredChangesIn(pCall.mapDiff)

\* Item 1 left team UI and item 2 joined it
C22_Witness ==
    /\ pCall.pc = "done"
    /\ pCall.filter = Chars_Team \o <<"=">> \o Chars_UI
    /\ IDsOf(pHeap[From].Items) = {"1", "2"}
    /\ Reported(pCall.diff, "1") = <<0, 1, 0>>
    /\ Reported(pCall.mapDiff, "1") = <<0, 1, 0>>
    /\ Reported(pCall.diff, "2") = <<1, 0, 0>>
    /\ Reported(pCall.mapDiff, "2") = <<1, 0, 0>>

\* C26: FilterState, ProjectState.CompareTo, CompareProjectStates and the
\* Item.CompareTo calls they make never modify their inputs: every
\* ProjectState that exists before a call holds the same items, in the same
\* order and with the same ID, DateSpan and attributes, after it.
C26_InputsNotModified ==
    [][\A a \in DOMAIN pHeap : a \in DOMAIN pHeap' /\ pHeap'[a] = pHeap[a]]_vars

\* Both snapshots were filtered into new states, the old one lost an item to
\* the filter, and both comparisons have run
C26_Witness ==
    /\ pCall.pc = "done"
    /\ DOMAIN pHeap = 1..4
    /\ pCall.from = 3 /\ pCall.to = 4
    /\ Len(pHeap[From].Items) = 2
    /\ Len(pHeap[3].Items) = 1
    /\ Len(pCall.diff.ChangedItems) = 1

UniqueIDs(items) == \A id \in IDsOf(items) : CountID(items, id) = 1

\* C28: for two states whose item IDs are unique within each state,
\* ProjectState.CompareTo and CompareProjectStates return the same diff up
\* to order: the same added items, the same removed items, and the same
\* changed items with the same DateChange and FieldChanges.
C28_NestedLoopEqualsMapBased ==
    (/\ pCall.pc = "done"
     /\ UniqueIDs(pHeap[pCall.from].Items)
     /\ UniqueIDs(pHeap[pCall.to].Items)) =>
      /\ SameUpToOrder(pCall.diff.AddedItems, pCall.mapDiff.AddedItems)
      /\ SameUpToOrder(pCall.diff.RemovedItems, pCall.mapDiff.RemovedItems)
      /\ SameUpToOrder(StripTimestamps(pCall.diff.ChangedItems),
                       StripTimestamps(pCall.mapDiff.ChangedItems))

\* Two added items that the two comparisons list in different orders
C28_Witness ==
    /\ pCall.pc = "done"
    /\ UniqueIDs(pHeap[pCall.from].Items)
    /\ UniqueIDs(pHeap[pCall.to].Items)
    /\ Len(pCall.diff.AddedItems) = 2
    /\ pCall.diff.AddedItems # pCall.mapDiff.AddedItems

--------------------------------------------------------------------------
(* Properties of FindClosestState, checked under SpecClosest *)

\* The distance in time, as a number of days
Distance(t, u) == IF t >= u THEN t - u ELSE u - t

\* C23: after any sequence of SaveState calls, FindClosestState(project, t)
\* fails when the project has no state file, and otherwise returns a state
\* file of the project whose time is at the least distance from t: the file
\* at t when there is one, the earliest file when t is before all of them,
\* the latest when t is after all of them.
C23_ClosestStateReturned ==
    fcCall.pc \in {"found", "error"} =>
        LET dir == ProjectDir(DOMAIN disk, fcCall.project)
        IN /\ fcCall.pc = "error" <=> dir = {}
           /\ fcCall.pc = "found" =>
                /\ fcCall.file \in dir
                /\ \A g \in dir :
                     Distance(fcCall.timestamp, fcCall.file.unix)
                       <= Distance(fcCall.timestamp, g.unix)

--------------------------------------------------------------------------
(* Properties of ParseHumanRange, checked under SpecRange *)

\* The durations, in minutes, that a documented range names
NamedDurations(timeRange) ==
    CASE timeRange = Range_last30minutes -> {30}
      [] timeRange = Range_last2hours -> {2 * 60}
      [] timeRange \in {Range_last1day, Range_1day} -> {MinutesPerDay}
      [] timeRange \in {Range_last1week, Range_lastweek} -> {7 * MinutesPerDay}
      [] timeRange = Range_last1month -> {n * MinutesPerDay : n \in 28..31}

\* C24: every --range value shown in the help text and in the README is
\* accepted by ParseHumanRange without an error, and the range returned has
\* the length the value names (to - from).
C24_DocumentedRangesAccepted ==
    (hrCall.pc \in {"returned", "failed"} /\ hrCall.timeRange \in DocumentedRanges) =>
        /\ hrCall.pc = "returned"
        /\ hrCall.to - hrCall.from \in NamedDurations(hrCall.timeRange)

--------------------------------------------------------------------------
(* Properties of formatTimelineDetails, checked under SpecTimeline *)

\* strings.Contains(s, word)
Contains(s, word) ==
    \E i \in 1..(Len(s) - Len(word) + 1) : SubSeq(s, i, i + Len(word) - 1) = word

NoTimelineChanges ==
    <<"N", "o", " ", "t", "i", "m", "e", "l", "i", "n", "e", " ",
      "c", "h", "a", "n", "g", "e", "s">>

MentionsStart(text) ==
    \/ Contains(text, <<"d", "e", "l", "a", "y", "e", "d">>)
    \/ Contains(text, <<"m", "o", "v", "e", "d", " ", "e", "a", "r", "l", "i", "e", "r">>)

MentionsDuration(text) ==
    \/ Contains(text, <<"i", "n", "c", "r", "e", "a", "s", "e", "d">>)
    \/ Contains(text, <<"d", "e", "c", "r", "e", "a", "s", "e", "d">>)

Formatted == tdCall.pc \in {"formatted", "compared and formatted"}

\* C25 as stated: the text of formatTimelineDetails mentions the start shift
\* exactly when StartDaysDelta is not 0, mentions the duration change
\* exactly when DurationDelta is not 0, and is "No timeline changes" only
\* when both are 0.
C25_MentionsWhatChanged ==
    Formatted =>
        /\ MentionsStart(tdCall.text) <=> tdCall.change.StartDaysDelta # 0
        /\ MentionsDuration(tdCall.text) <=> tdCall.change.DurationDelta # 0
        /\ tdCall.text = NoTimelineChanges =>
              (tdCall.change.StartDaysDelta = 0 /\ tdCall.change.DurationDelta = 0)

\* C25, amended: the text mentions the start shift exactly when
\* StartDaysDelta is not 0; it mentions the duration change exactly when
\* DurationDelta is not 0 and the end moved (EndDaysDelta not 0) by another
\* number of days than the start; it is "No timeline changes" exactly when
\* it mentions neither.
C25_MentionsWhatTheCodeTests ==
    Formatted =>
        /\ MentionsStart(tdCall.text) <=> tdCall.change.StartDaysDelta # 0
        /\ MentionsDuration(tdCall.text) <=>
              /\ tdCall.change.DurationDelta # 0
              /\ tdCall.change.EndDaysDelta # 0
              /\ tdCall.change.EndDaysDelta # tdCall.change.StartDaysDelta
        /\ tdCall.text = NoTimelineChanges <=>
              (~MentionsStart(tdCall.text) /\ ~MentionsDuration(tdCall.text))

\* The start moved two weeks earlier and the end stayed: the duration grew,
\* and the text speaks of the start alone
C25_Witness ==
    /\ Formatted
    /\ tdCall.change.StartDaysDelta = -14
    /\ tdCall.change.EndDaysDelta = 0
    /\ tdCall.change.DurationDelta = 14
    /\ MentionsStart(tdCall.text)
    /\ ~MentionsDuration(tdCall.text)

\* C30: for every ItemDiff that Item.CompareTo returns for two spans of
\* calendar dates, a DateChange that is not nil has a StartDaysDelta or an
\* EndDaysDelta other than 0, and the text formatTimelineDetails gives for it
\* is never "No timeline changes".
C30_DateChangeIsNeverSilent ==
    (tdCall.pc \in {"compared", "compared and formatted"} /\ ~tdCall.change.nil) =>
        /\ tdCall.change.StartDaysDelta # 0 \/ tdCall.change.EndDaysDelta # 0
        /\ tdCall.pc = "compared and formatted" => tdCall.text # NoTimelineChanges

--------------------------------------------------------------------------
(* The duration delta of DateSpan.CompareTo, checked under SpecDate *)

\* C29: for every pair of spans of calendar dates a and b, a.CompareTo(b)
\* has DurationDelta = EndDaysDelta - StartDaysDelta, and so a span that is
\* shifted as a whole (both deltas equal) has DurationDelta 0; the same for
\* b.CompareTo(a).
C29_DurationDeltaIsEndMinusStart ==
    (dateChange.set /\ \A s \in Slots : built[s].err = ErrNil) =>
        \A c \in {dateChange.ab, dateChange.ba} :
            /\ c.DurationDelta = c.EndDaysDelta - c.StartDaysDelta
            /\ c.StartDaysDelta = c.EndDaysDelta => c.DurationDelta = 0

--------------------------------------------------------------------------
(* Properties of FetchProjectState, checked under SpecFetch *)

\* The node has a date value under the field name, and it parses
ParsedUnder(nodes, name) ==
    \E n \in DOMAIN nodes :
        /\ nodes[n].TypeName = DateValue
        /\ nodes[n].Name = name
        /\ ParseDate(nodes[n].Value).ok

\* C27: for every item FetchProjectState produces, the DateSpan is other
\* than the zero value only when the node had a date that parsed under the
\* configured start field and one under the configured end field; every
\* DateSpan is the zero value or has End >= Start; and a date value under a
\* configured field that does not parse is kept as a string attribute of
\* that name.
C27_DateSpanWholeOrZero ==
    fpCall.pc = "fetched" =>
        /\ fpCall.item.DateSpan # ZeroDateSpan =>
              /\ ParsedUnder(fpCall.nodes, fpCall.config.startField)
              /\ ParsedUnder(fpCall.nodes, fpCall.config.endField)
        /\ \/ fpCall.item.DateSpan = ZeroDateSpan
           \/ fpCall.item.DateSpan.End >= fpCall.item.DateSpan.Start
        /\ \A n \in DOMAIN fpCall.nodes :
              LET node == fpCall.nodes[n]
              IN (/\ node.TypeName = DateValue
                  /\ node.Name \in {fpCall.config.startField, fpCall.config.endField}
                  /\ ~ParseDate(node.Value).ok)
                   => /\ node.Name \in DOMAIN fpCall.item.Attributes
                      /\ fpCall.item.Attributes[node.Name].t = "string"

====
